---- MODULE Spec2Model ----
(***************************************************************************)
(* EMOTISENSE AI: the automatic-screenshot event detector of app.py        *)
(* (live_dashboard) with the session controls of main, and the face        *)
(* emotion stabilizer of src/webcam/face_emotion.py.                       *)
(*                                                                         *)
(* Scores and probabilities are integers: a fused score is in hundredths   *)
(* (0.85 is 85), a face probability is in thousandths (0.60 is 600).       *)
(* Time is in the units of time.time() (seconds).                          *)
(***************************************************************************)
EXTENDS Integers, Sequences, FiniteSets, TLC

VARIABLES
    session_active,        \* st.session_state.session_active
    simulation_mode,       \* st.session_state.simulation_mode
    stress_counter,        \* st.session_state.stress_counter (Absent: key not set)
    distraction_counter,   \* st.session_state.distraction_counter
    last_screenshot_time,  \* st.session_state.last_screenshot_time (Absent: no entry)
    screenshots,           \* session_logger.screenshots, the event log
    now,                   \* the wall clock read by time.time()
    emotion_history,       \* FaceEmotionDetector.emotion_history, deque(maxlen=5)
    face_history,          \* FaceEmotionDetector.face_history, deque(maxlen=3)
    face_box,              \* what the last _detect_face_multi_method call returned
    frame_count,           \* FaceEmotionDetector.frame_count
    last_valid_emotions,   \* FaceEmotionDetector.last_valid_emotions
    fer_detector,          \* the module global _fer_detector
    opencv_cascade,        \* the module global _opencv_cascade
    dlib_detector,         \* the module global _dlib_detector
    stable_probs,          \* what the last _get_stable_emotions call returned
    result,                \* what the last detect_emotions call returned
    fallback_generator,    \* st.session_state.fallback_generator, the object's fields
    df,                    \* the data frame given to the functions of utils.py
    analytics,             \* what the last calculate_session_analytics call returned
    quality_score,         \* what the last calculate_session_quality_score call returned
    camera_is_active,      \* st.session_state.camera.is_active
    stress_history,        \* session_logger's records of the session: df['stress'].tolist()
    stress_alert           \* whether the last run showed the high-stress alert

appVars == <<session_active, simulation_mode, stress_counter, distraction_counter,
             last_screenshot_time, screenshots, now>>

faceVars == <<emotion_history, face_history, face_box, frame_count,
              last_valid_emotions, fer_detector, opencv_cascade, dlib_detector,
              stable_probs, result>>

genVars == <<fallback_generator>>

utilVars == <<df, analytics, quality_score>>

sessionVars == <<camera_is_active, stress_history, stress_alert>>

vars == <<appVars, faceVars, genVars, utilVars, sessionVars>>

(***************************************************************************)
(* Bounds of the model.                                                    *)
(***************************************************************************)
MaxTime == 20
TimeStep == 5
MaxCount == 5
MaxLog == 2

(***************************************************************************)
(* The literals of live_dashboard, in hundredths where they are scores.    *)
(***************************************************************************)
StressLevel == 85
StressTicks == 3
StressCooldown == 10
HappyConfidence == 75
HappyCooldown == 10
DistractionLevel == 10
DistractionTicks == 5
DistractionCooldown == 10

\* A key that st.session_state (or the last_screenshot_time dict) does not hold.
Absent == -1

EventKeys == {"STRESS", "HAPPY", "DISTRACTION"}

\* The inputs of one tick: what fuse_emotions returned (each score at its threshold
\* and one hundredth off it) and the dominant face label.
StressVals == {84, 85}
EngagementVals == {10, 11}
ConfidenceVals == {74, 75}
FusedMetrics == [stress : StressVals, engagement : EngagementVals,
                 confidence : ConfidenceVals]
DominantLabels == {"happy", "neutral"}

\* last_screenshot_time.get(key, 0)
LastShot(lst, key) == IF lst[key] = Absent THEN 0 ELSE lst[key]

\* 'stress_counter' not in st.session_state: stress_counter = 0
CounterOrZero(c) == IF c = Absent THEN 0 ELSE c

\* StressBlock with the duration test off by one (fires on the 4th tick).
StressBlockLate(counter, lst, stress, t) ==
    IF stress >= StressLevel
    THEN IF counter + 1 > StressTicks /\ t - LastShot(lst, "STRESS") >= StressCooldown
         THEN [counter |-> 0, last |-> [lst EXCEPT !["STRESS"] = t], taken |-> TRUE]
         ELSE [counter |-> counter + 1, last |-> lst, taken |-> FALSE]
    ELSE [counter |-> 0, last |-> lst, taken |-> FALSE]

\* StressBlock with the cooldown test left out.
StressBlockNoCooldown(counter, lst, stress, t) ==
    IF stress >= StressLevel
    THEN IF counter + 1 >= StressTicks
         THEN [counter |-> 0, last |-> [lst EXCEPT !["STRESS"] = t], taken |-> TRUE]
         ELSE [counter |-> counter + 1, last |-> lst, taken |-> FALSE]
    ELSE [counter |-> 0, last |-> lst, taken |-> FALSE]

\* StressBlock that leaves the counter running when it fires.
StressBlockNoReset(counter, lst, stress, t) ==
    IF stress >= StressLevel
    THEN IF counter + 1 >= StressTicks /\ t - LastShot(lst, "STRESS") >= StressCooldown
         THEN [counter |-> counter + 1, last |-> [lst EXCEPT !["STRESS"] = t], taken |-> TRUE]
         ELSE [counter |-> counter + 1, last |-> lst, taken |-> FALSE]
    ELSE [counter |-> 0, last |-> lst, taken |-> FALSE]

\* StressBlock that restarts the count when the cooldown blocks the screenshot.
StressBlockRestartWhenBlocked(counter, lst, stress, t) ==
    IF stress >= StressLevel
    THEN IF counter + 1 >= StressTicks
         THEN IF t - LastShot(lst, "STRESS") >= StressCooldown
              THEN [counter |-> 0, last |-> [lst EXCEPT !["STRESS"] = t], taken |-> TRUE]
              ELSE [counter |-> 0, last |-> lst, taken |-> FALSE]
         ELSE [counter |-> counter + 1, last |-> lst, taken |-> FALSE]
    ELSE [counter |-> 0, last |-> lst, taken |-> FALSE]

\* EXTREME STRESS: stress >= 0.85 for 3+ ticks, 10 second cooldown.
StressBlock(counter, lst, stress, t) ==
    IF stress >= StressLevel
    THEN IF counter + 1 >= StressTicks /\ t - LastShot(lst, "STRESS") >= StressCooldown
         THEN [counter |-> 0, last |-> [lst EXCEPT !["STRESS"] = t], taken |-> TRUE]
         ELSE [counter |-> counter + 1, last |-> lst, taken |-> FALSE]
    ELSE [counter |-> 0, last |-> lst, taken |-> FALSE]

\* EXTREME HAPPINESS: happy emotion + confidence >= 0.75.
HappyCondition(dominant_emotion, confidence) ==
    dominant_emotion = "happy" /\ confidence >= HappyConfidence

HappyBlock(lst, dominant_emotion, confidence, t) ==
    IF HappyCondition(dominant_emotion, confidence)
       /\ t - LastShot(lst, "HAPPY") >= HappyCooldown
    THEN [last |-> [lst EXCEPT !["HAPPY"] = t], taken |-> TRUE]
    ELSE [last |-> lst, taken |-> FALSE]

\* DistractionBlock with a strict threshold test (engagement < 0.10).
DistractionBlockStrict(counter, lst, engagement, t) ==
    IF engagement < DistractionLevel
    THEN IF counter + 1 >= DistractionTicks
            /\ t - LastShot(lst, "DISTRACTION") >= DistractionCooldown
         THEN [counter |-> 0, last |-> [lst EXCEPT !["DISTRACTION"] = t], taken |-> TRUE]
         ELSE [counter |-> counter + 1, last |-> lst, taken |-> FALSE]
    ELSE [counter |-> 0, last |-> lst, taken |-> FALSE]

\* DISTRACTION: engagement <= 0.10 for 5+ ticks.
DistractionBlock(counter, lst, engagement, t) ==
    IF engagement <= DistractionLevel
    THEN IF counter + 1 >= DistractionTicks
            /\ t - LastShot(lst, "DISTRACTION") >= DistractionCooldown
         THEN [counter |-> 0, last |-> [lst EXCEPT !["DISTRACTION"] = t], taken |-> TRUE]
         ELSE [counter |-> counter + 1, last |-> lst, taken |-> FALSE]
    ELSE [counter |-> 0, last |-> lst, taken |-> FALSE]

\* EventType with the HAPPY branch tested before the STRESS branch.
EventTypeHappyFirst(sc, dc, dominant_emotion, fused_metrics) ==
    IF HappyCondition(dominant_emotion, fused_metrics.confidence) THEN "HAPPY"
    ELSE IF sc = 0 /\ fused_metrics.stress >= StressLevel THEN "STRESS"
    ELSE IF dc = 0 /\ fused_metrics.engagement <= DistractionLevel THEN "DISTRACTION"
    ELSE "AUTO"

\* EventType with the DISTRACTION branch tested before the HAPPY branch.
EventTypeDistractionFirst(sc, dc, dominant_emotion, fused_metrics) ==
    IF sc = 0 /\ fused_metrics.stress >= StressLevel THEN "STRESS"
    ELSE IF dc = 0 /\ fused_metrics.engagement <= DistractionLevel THEN "DISTRACTION"
    ELSE IF HappyCondition(dominant_emotion, fused_metrics.confidence) THEN "HAPPY"
    ELSE "AUTO"

\* Determine event type and score, from the counters as the three blocks left them.
EventType(sc, dc, dominant_emotion, fused_metrics) ==
    IF sc = 0 /\ fused_metrics.stress >= StressLevel THEN "STRESS"
    ELSE IF HappyCondition(dominant_emotion, fused_metrics.confidence) THEN "HAPPY"
    ELSE IF dc = 0 /\ fused_metrics.engagement <= DistractionLevel THEN "DISTRACTION"
    ELSE "AUTO"

\* EventScore with the stress score logged for every event type.
EventScoreAlwaysStress(event_type, fused_metrics) == fused_metrics.stress

EventScore(event_type, fused_metrics) ==
    CASE event_type = "STRESS" -> fused_metrics.stress
      [] event_type = "HAPPY" -> fused_metrics.confidence
      [] event_type = "DISTRACTION" -> fused_metrics.engagement
      [] OTHER -> fused_metrics.stress

\* screenshot_data, the record appended to session_logger.screenshots.
ScreenshotData(event_type, score, t) ==
    [type |-> event_type, score |-> score, timestamp |-> t]

\* How the try block of one tick ends: "ok", or "capture_error" when os.makedirs,
\* pyautogui.screenshot() or screenshot.save() raised (the tick came to them: a
\* trigger fired) and the except clause ended the block before the event was logged.
\* The process is one where "import pyautogui" succeeds.
Outcomes == {"ok", "capture_error"}

\* The automatic-screenshot block of one tick.
AutoScreenshot(dominant_emotion, fused_metrics, outcome) ==
    LET s == StressBlock(CounterOrZero(stress_counter), last_screenshot_time,
                         fused_metrics.stress, now)
        h == HappyBlock(s.last, dominant_emotion, fused_metrics.confidence, now)
        d == DistractionBlock(CounterOrZero(distraction_counter), h.last,
                              fused_metrics.engagement, now)
        screenshot_taken == s.taken \/ h.taken \/ d.taken
        event_type == EventType(s.counter, d.counter, dominant_emotion, fused_metrics)
    IN  /\ s.counter <= MaxCount
        /\ d.counter <= MaxCount
        /\ stress_counter' = s.counter
        /\ distraction_counter' = d.counter
        /\ last_screenshot_time' = d.last
        /\ IF screenshot_taken
           THEN IF outcome = "ok"
                THEN /\ Len(screenshots) < MaxLog
                     /\ screenshots' = Append(screenshots,
                           ScreenshotData(event_type, EventScore(event_type, fused_metrics), now))
                ELSE UNCHANGED screenshots
           ELSE outcome = "ok" /\ UNCHANGED screenshots

\* One run of live_dashboard (the automatic screenshots are taken only in live mode).
LiveDashboard(dominant_emotion, fused_metrics, outcome) ==
    /\ session_active
    /\ IF ~simulation_mode
       THEN AutoScreenshot(dominant_emotion, fused_metrics, outcome)
       ELSE outcome = "ok" /\ UNCHANGED <<stress_counter, distraction_counter,
                                          last_screenshot_time, screenshots>>
    /\ UNCHANGED <<session_active, simulation_mode, now>>
    /\ UNCHANGED <<faceVars, genVars, utilVars, sessionVars>>

\* session_logger.start_session(): the event log is scoped to the session.
SessionLoggerStart == <<>>

\* main: start_session and not session_active.
StartSession ==
    /\ ~session_active
    /\ session_active' = TRUE
    /\ screenshots' = SessionLoggerStart
    /\ UNCHANGED <<simulation_mode, stress_counter, distraction_counter,
                   last_screenshot_time, now>>
    /\ UNCHANGED <<faceVars, genVars, utilVars, sessionVars>>

\* main: stop_session and session_active.
StopSession ==
    /\ session_active
    /\ session_active' = FALSE
    /\ UNCHANGED <<simulation_mode, stress_counter, distraction_counter,
                   last_screenshot_time, screenshots, now>>
    /\ UNCHANGED <<faceVars, genVars, utilVars, sessionVars>>

\* main: st.session_state.simulation_mode = simulation_mode (the checkbox).
SetSimulationMode ==
    /\ simulation_mode' = ~simulation_mode
    /\ UNCHANGED <<session_active, stress_counter, distraction_counter,
                   last_screenshot_time, screenshots, now>>
    /\ UNCHANGED <<faceVars, genVars, utilVars, sessionVars>>

\* Time passes between two runs of the script.
ClockAdvance ==
    /\ now + TimeStep <= MaxTime
    /\ now' = now + TimeStep
    /\ UNCHANGED <<session_active, simulation_mode, stress_counter,
                   distraction_counter, last_screenshot_time, screenshots>>
    /\ UNCHANGED <<faceVars, genVars, utilVars, sessionVars>>

(***************************************************************************)
(* src/webcam/face_emotion.py: FaceEmotionDetector.                        *)
(* A probability vector is a record over the seven labels, in thousandths. *)
(***************************************************************************)
\* Python's None; an empty dict or list is the same value, false in a condition.
None == <<>>

\* "not x" for a dict, a list or None.
Falsy(x) == DOMAIN x = {}

\* The labels, in the key order of the dicts (max(d, key=d.get) keeps the first maximum).
Labels == <<"angry", "disgust", "fear", "happy", "sad", "surprise", "neutral">>

HistoryLen == 5        \* deque(maxlen=5)
FaceHistoryLen == 3    \* deque(maxlen=3)
SmoothFrom == 3        \* len(self.emotion_history) >= 3

\* A neutral distribution with the weight of happy moved to neutral.
GetNeutralEmotionsNoHappy ==
    [angry |-> 50, disgust |-> 50, fear |-> 50, happy |-> 0,
     sad |-> 50, surprise |-> 50, neutral |-> 750]

\* _get_neutral_emotions
GetNeutralEmotions ==
    [angry |-> 50, disgust |-> 50, fear |-> 50, happy |-> 150,
     sad |-> 50, surprise |-> 50, neutral |-> 600]

\* deque.appendleft with maxlen: the entry enters at the front, the last one is dropped.
DequeAppendLeft(dq, x, maxlen) ==
    IF Len(dq) >= maxlen THEN <<x>> \o SubSeq(dq, 1, maxlen - 1) ELSE <<x>> \o dq

\* deque.append with maxlen: the oldest entry is dropped when the deque is full.
DequeAppend(dq, x, maxlen) ==
    IF Len(dq) >= maxlen THEN Append(Tail(dq), x) ELSE Append(dq, x)

\* seq[-n:]
LastN(seq, n) ==
    IF n >= Len(seq) THEN seq ELSE SubSeq(seq, Len(seq) - n + 1, Len(seq))

RECURSIVE SumSeq(_)
SumSeq(seq) == IF seq = <<>> THEN 0 ELSE Head(seq) + SumSeq(Tail(seq))

\* zip that starts at the second pair.
ZipSumFromSecond(values, weights) ==
    LET n == IF Len(values) < Len(weights) THEN Len(values) ELSE Len(weights)
    IN  SumSeq([i \in 1..(n - 1) |-> values[i + 1] * weights[i + 1]])

\* sum(v * w for v, w in zip(values, weights)): zip stops at the shorter list.
ZipSum(values, weights) ==
    LET n == IF Len(values) < Len(weights) THEN Len(values) ELSE Len(weights)
    IN  SumSeq([i \in 1..n |-> values[i] * weights[i]])

\* The weight list of _get_stable_emotions, in tenths.
Weights(n) == IF n >= 4 THEN <<1, 2, 3, 4>> ELSE IF n >= 2 THEN <<3, 7>> ELSE <<10>>

\* smoothed[emotion] for the history hist.
Smoothed(hist, emotion) ==
    LET values == [i \in 1..Len(hist) |-> hist[i][emotion]]
        weights == LastN(Weights(Len(values)), Len(values))
    IN  ZipSum(values, weights) \div SumSeq(weights)

\* The dict smoothed: one entry per key of current_emotions, the seven labels.
SmoothedVector(hist) ==
    [angry |-> Smoothed(hist, "angry"), disgust |-> Smoothed(hist, "disgust"),
     fear |-> Smoothed(hist, "fear"), happy |-> Smoothed(hist, "happy"),
     sad |-> Smoothed(hist, "sad"), surprise |-> Smoothed(hist, "surprise"),
     neutral |-> Smoothed(hist, "neutral")]

\* _get_stable_emotions smoothing already from a history of two vectors.
GetStableEmotionsEager(current_emotions, history, last_valid) ==
    IF Falsy(current_emotions)
    THEN [ret |-> IF Falsy(last_valid) THEN GetNeutralEmotions ELSE last_valid,
          history |-> history, last_valid |-> last_valid]
    ELSE LET hist == DequeAppend(history, current_emotions, HistoryLen)
         IN  IF Len(hist) >= 2
             THEN LET smoothed == SmoothedVector(hist)
                  IN  [ret |-> smoothed, history |-> hist, last_valid |-> smoothed]
             ELSE [ret |-> current_emotions, history |-> hist,
                   last_valid |-> current_emotions]

\* _get_stable_emotions: the value returned and the fields it leaves.
GetStableEmotions(current_emotions, history, last_valid) ==
    IF Falsy(current_emotions)
    THEN [ret |-> IF Falsy(last_valid) THEN GetNeutralEmotions ELSE last_valid,
          history |-> history, last_valid |-> last_valid]
    ELSE LET hist == DequeAppend(history, current_emotions, HistoryLen)
         IN  IF Len(hist) >= SmoothFrom
             THEN LET smoothed == SmoothedVector(hist)
                  IN  [ret |-> smoothed, history |-> hist, last_valid |-> smoothed]
             ELSE [ret |-> current_emotions, history |-> hist,
                   last_valid |-> current_emotions]

\* _calculate_negative_score, in ten-thousandths.
CalculateNegativeScore(emotions) ==
    4 * emotions.sad + 3 * emotions.angry + 2 * emotions.fear + 1 * emotions.disgust

\* max(emotions, key=emotions.get): the first label, in key order, of maximal value.
RECURSIVE MaxEmotionFrom(_, _)
MaxEmotionFrom(emotions, i) ==
    IF \A j \in 1..Len(Labels) : emotions[Labels[j]] <= emotions[Labels[i]]
    THEN Labels[i]
    ELSE MaxEmotionFrom(emotions, i + 1)

MaxEmotion(emotions) == MaxEmotionFrom(emotions, 1)

NeutralNegativeScore == 750   \* "negative_score": 0.075
NeutralConfidence == 600      \* "confidence": 0.6 with a box
LastKnownConfidence == 300    \* "confidence": 0.3

NoBox == <<0, 0, 0, 0>>

\* _get_neutral_output labelled "happy".
GetNeutralOutputHappy(bbox) ==
    LET box == IF bbox = None THEN NoBox ELSE bbox
    IN  [emotion |-> "happy",
         confidence |-> IF box # NoBox THEN NeutralConfidence ELSE 0,
         negative_score |-> NeutralNegativeScore,
         bbox |-> box,
         probs |-> GetNeutralEmotions]

\* _get_neutral_output(bbox)
GetNeutralOutput(bbox) ==
    LET box == IF bbox = None THEN NoBox ELSE bbox
    IN  [emotion |-> "neutral",
         confidence |-> IF box # NoBox THEN NeutralConfidence ELSE 0,
         negative_score |-> NeutralNegativeScore,
         bbox |-> box,
         probs |-> GetNeutralEmotions]

FrameWidth == 640    \* frame.shape[1]
FrameHeight == 480   \* frame.shape[0]
BackendMinSize == 60 \* box[2] > 60 and box[3] > 60
MinFaceSize == 80    \* fw > 80 and fh > 80
MaxJump == 50        \* abs(best_face[0] - last_face[0]) > 50

MaxFrames == 3
MaxTicks == 24
MaxRows == 3
MaxRecords == 6

Abs(n) == IF n < 0 THEN -n ELSE n

\* The minimum size asked of a box of the FER or dlib backend.
BackendBox(box) == box[3] > BackendMinSize /\ box[4] > BackendMinSize

\* The filter with the size test alone: position and coverage are not looked at.
ValidFaceSizeOnly(face) == face[3] > MinFaceSize /\ face[4] > MinFaceSize

\* The size and position filter of _select_best_face.
ValidFace(face) ==
    /\ face[3] > MinFaceSize /\ face[4] > MinFaceSize
    /\ face[1] > 0 /\ face[2] > 0
    /\ face[1] + face[3] < FrameWidth /\ face[2] + face[4] < FrameHeight
    /\ 10 * face[3] < 8 * FrameWidth /\ 10 * face[4] < 8 * FrameHeight

\* max(valid_faces, key=lambda f: f[2] * f[3]): the first face of largest area.
LargestFace(faces) ==
    faces[CHOOSE i \in 1..Len(faces) :
            /\ \A j \in 1..Len(faces) : faces[j][3] * faces[j][4] <= faces[i][3] * faces[i][4]
            /\ \A j \in 1..(i - 1) : faces[j][3] * faces[j][4] < faces[i][3] * faces[i][4]]

\* The blend with the weights exchanged: 0.3 toward the new box.
BlendTowardsLast(new, last) == (3 * new + 7 * last) \div 10

\* int(alpha * new + (1 - alpha) * last) with alpha = 0.7, for coordinates >= 0.
\* On the coordinates the boxes of this model reach, the floating-point value
\* truncates to this integer.
Blend(new, last) == (7 * new + 3 * last) \div 10

\* _select_best_face: the box returned and the face history it leaves.
SelectBestFace(faces, history) ==
    IF faces = <<>>
    THEN [bbox |-> None, face_history |-> history]
    ELSE LET valid_faces == SelectSeq(faces, ValidFace)
         IN  IF valid_faces = <<>>
             THEN [bbox |-> None, face_history |-> history]
             ELSE LET largest == LargestFace(valid_faces)
                      last_face == history[Len(history)]
                      best_face ==
                          IF /\ history # <<>>
                             /\ \/ Abs(largest[1] - last_face[1]) > MaxJump
                                \/ Abs(largest[2] - last_face[2]) > MaxJump
                          THEN [i \in 1..4 |-> Blend(largest[i], last_face[i])]
                          ELSE largest
                  IN  [bbox |-> best_face,
                       face_history |-> DequeAppend(history, best_face, FaceHistoryLen)]

\* A backend singleton: "unset" is the initial None, "failed" is False.
BackendStates == {"unset", "ok", "failed"}

\* _get_fer_detector, _get_opencv_cascade, _get_dlib_detector: the first call
\* initialises the singleton, and a failed initialisation is never retried.
GetBackend(state, init_ok) ==
    IF state = "unset" THEN IF init_ok THEN "ok" ELSE "failed" ELSE state

\* The initialisation outcomes a call can meet.
InitOutcomes(state) == IF state = "unset" THEN BOOLEAN ELSE {TRUE}

\* _detect_face_multi_method without "if not faces": every backend is consulted
\* and the candidates of all of them are pooled.
DetectFaceAllBackends(frame, history, fer, cascade, dlib, env) ==
    LET fer1 == GetBackend(fer, env.fer)
        faces1 == IF fer1 = "ok" /\ ~frame.fer_raises
                  THEN SelectSeq(frame.fer_boxes, BackendBox) ELSE <<>>
        cascade1 == GetBackend(cascade, env.cascade)
        faces2 == IF cascade1 = "ok" /\ ~frame.cascade_raises
                  THEN faces1 \o frame.cascade_boxes ELSE faces1
        dlib1 == GetBackend(dlib, env.dlib)
        faces3 == IF dlib1 = "ok" /\ ~frame.dlib_raises
                  THEN faces2 \o SelectSeq(frame.dlib_boxes, BackendBox) ELSE faces2
        best == SelectBestFace(faces3, history)
    IN  [bbox |-> best.bbox, face_history |-> best.face_history,
         fer |-> fer1, cascade |-> cascade1, dlib |-> dlib1]

\* _detect_face_multi_method without the guards around FER: an unavailable or
\* raising FER ends the call with no box.
DetectFaceStopOnFailure(frame, history, fer, cascade, dlib, env) ==
    LET fer1 == GetBackend(fer, env.fer)
        stop == fer1 = "failed" \/ frame.fer_raises
        faces1 == IF fer1 = "ok" /\ ~frame.fer_raises
                  THEN SelectSeq(frame.fer_boxes, BackendBox) ELSE <<>>
        cascade1 == IF faces1 = <<>> /\ ~stop THEN GetBackend(cascade, env.cascade) ELSE cascade
        faces2 == IF faces1 = <<>> /\ ~stop /\ cascade1 = "ok" /\ ~frame.cascade_raises
                  THEN frame.cascade_boxes ELSE faces1
        dlib1 == IF faces2 = <<>> /\ ~stop THEN GetBackend(dlib, env.dlib) ELSE dlib
        faces3 == IF faces2 = <<>> /\ ~stop /\ dlib1 = "ok" /\ ~frame.dlib_raises
                  THEN SelectSeq(frame.dlib_boxes, BackendBox) ELSE faces2
        best == SelectBestFace(faces3, history)
    IN  [bbox |-> best.bbox, face_history |-> best.face_history,
         fer |-> fer1, cascade |-> cascade1, dlib |-> dlib1]

\* _detect_face_multi_method.  A raising backend yields nothing (except: pass); the
\* dlib getter returns None after a failure, which passes "is not False", and the call
\* of None raises inside the try, so a failed dlib yields nothing either.
DetectFaceMultiMethod(frame, history, fer, cascade, dlib, env) ==
    LET fer1 == GetBackend(fer, env.fer)
        faces1 == IF fer1 = "ok" /\ ~frame.fer_raises
                  THEN SelectSeq(frame.fer_boxes, BackendBox) ELSE <<>>
        cascade1 == IF faces1 = <<>> THEN GetBackend(cascade, env.cascade) ELSE cascade
        faces2 == IF faces1 = <<>> /\ cascade1 = "ok" /\ ~frame.cascade_raises
                  THEN frame.cascade_boxes ELSE faces1
        dlib1 == IF faces2 = <<>> THEN GetBackend(dlib, env.dlib) ELSE dlib
        faces3 == IF faces2 = <<>> /\ dlib1 = "ok" /\ ~frame.dlib_raises
                  THEN SelectSeq(frame.dlib_boxes, BackendBox) ELSE faces2
        best == SelectBestFace(faces3, history)
    IN  [bbox |-> best.bbox, face_history |-> best.face_history,
         fer |-> fer1, cascade |-> cascade1, dlib |-> dlib1]

\* face_crop.size for frame[y:y+h, x:x+w]: the slice is clipped to the frame.
CropSize(bbox) ==
    LET right == IF bbox[1] + bbox[3] < FrameWidth THEN bbox[1] + bbox[3] ELSE FrameWidth
        bottom == IF bbox[2] + bbox[4] < FrameHeight THEN bbox[2] + bbox[4] ELSE FrameHeight
        cols == IF right > bbox[1] THEN right - bbox[1] ELSE 0
        rows == IF bottom > bbox[2] THEN bottom - bbox[2] ELSE 0
    IN  rows * cols

\* The raw vectors of the classifier.
RawHappy ==
    [angry |-> 10, disgust |-> 10, fear |-> 10, happy |-> 900,
     sad |-> 20, surprise |-> 20, neutral |-> 30]
RawSad ==
    [angry |-> 100, disgust |-> 50, fear |-> 50, happy |-> 0,
     sad |-> 700, surprise |-> 0, neutral |-> 100]
RawFear ==
    [angry |-> 200, disgust |-> 100, fear |-> 400, happy |-> 0,
     sad |-> 100, surprise |-> 100, neutral |-> 100]
RawVectors == {RawHappy, RawSad, RawFear}

BoxNear == <<100, 100, 200, 200>>
BoxFar == <<200, 100, 240, 240>>

\* A frame is what the backends make of it: the boxes each face detector finds
\* on it, whether FER raises on it, and the classifier's results on the face crop.
Frames ==
    {frame \in [fer_boxes : {<<>>, <<BoxNear>>, <<BoxFar>>},
                fer_raises : BOOLEAN,
                cascade_boxes : {<<>>, <<BoxNear>>}, cascade_raises : {FALSE},
                dlib_boxes : {<<>>, <<BoxNear>>}, dlib_raises : {FALSE},
                emotions : {<<>>} \cup {<<raw>> : raw \in RawVectors},
                classify_raises : BOOLEAN] :
        /\ frame.fer_raises => frame.fer_boxes = <<>>
        /\ frame.classify_raises => frame.emotions = <<>>
        /\ frame.dlib_boxes # <<>> => frame.cascade_boxes = <<>>}

\* The last-known output of detect_emotions when no face is found.
LastKnownOutput(last_valid) ==
    [emotion |-> MaxEmotion(last_valid),
     confidence |-> LastKnownConfidence,
     negative_score |-> CalculateNegativeScore(last_valid),
     bbox |-> NoBox,
     probs |-> last_valid]

\* detect_emotions(frame)
DetectEmotions(frame, env) ==
    IF frame = None
    THEN /\ result' = GetNeutralOutput(None)
         /\ UNCHANGED <<emotion_history, face_history, face_box, frame_count,
                        last_valid_emotions, fer_detector, opencv_cascade,
                        dlib_detector, stable_probs>>
         /\ UNCHANGED <<appVars, genVars, utilVars, sessionVars>>
    ELSE /\ frame_count < MaxFrames
         /\ \E loc \in {DetectFaceMultiMethod(frame, face_history, fer_detector,
                                              opencv_cascade, dlib_detector, env)},
               stable \in {IF frame.emotions = <<>> THEN None
                           ELSE GetStableEmotions(frame.emotions[1], emotion_history,
                                                  last_valid_emotions)} :
            LET bbox == loc.bbox
                valid == /\ bbox # None
                         /\ CropSize(bbox) # 0
                         /\ loc.fer = "ok"
                         /\ ~frame.classify_raises
                         /\ frame.emotions # <<>>
            IN  /\ frame_count' = frame_count + 1
                /\ face_history' = loc.face_history
                /\ face_box' = loc.bbox
                /\ fer_detector' = loc.fer
                /\ opencv_cascade' = loc.cascade
                /\ dlib_detector' = loc.dlib
                /\ IF valid
                   THEN /\ emotion_history' = stable.history
                        /\ last_valid_emotions' = stable.last_valid
                        /\ stable_probs' = stable.ret
                        /\ result' = [emotion |-> MaxEmotion(stable.ret),
                                      confidence |-> stable.ret[MaxEmotion(stable.ret)],
                                      negative_score |-> CalculateNegativeScore(stable.ret),
                                      bbox |-> bbox,
                                      probs |-> stable.ret]
                   ELSE /\ UNCHANGED <<emotion_history, last_valid_emotions, stable_probs>>
                        /\ result' =
                             IF bbox = None
                             THEN IF ~Falsy(last_valid_emotions)
                                  THEN LastKnownOutput(last_valid_emotions)
                                  ELSE GetNeutralOutput(None)
                             ELSE IF CropSize(bbox) = 0 THEN GetNeutralOutput(bbox)
                             ELSE IF loc.fer # "ok" THEN GetNeutralOutput(bbox)
                             ELSE IF frame.classify_raises THEN GetNeutralOutput(None)
                             ELSE GetNeutralOutput(bbox)
                /\ UNCHANGED <<appVars, genVars, utilVars, sessionVars>>

\* A call of _get_stable_emotions(current_emotions).
StableEmotions(current_emotions) ==
    \E stable \in {GetStableEmotions(current_emotions, emotion_history,
                                    last_valid_emotions)} :
        /\ emotion_history' = stable.history
        /\ last_valid_emotions' = stable.last_valid
        /\ stable_probs' = stable.ret
        /\ UNCHANGED <<face_history, face_box, frame_count, fer_detector,
                       opencv_cascade, dlib_detector, result>>
        /\ UNCHANGED <<appVars, genVars, utilVars, sessionVars>>

\* FaceEmotionDetector.__init__, before any backend is loaded.
FaceInit ==
    /\ emotion_history = <<>>
    /\ face_history = <<>>
    /\ face_box = None
    /\ frame_count = 0
    /\ last_valid_emotions = None
    /\ fer_detector = "unset"
    /\ opencv_cascade = "unset"
    /\ dlib_detector = "unset"
    /\ stable_probs = None
    /\ result = None

\* The boxes a face detector can report on a 640x480 frame: half of each frame
\* dimension; 90% of each; touching the left edge; touching the top edge; exactly 80%
\* of the width; reaching outside the frame; 70 px and 50 px wide.
BoxHalf == <<100, 100, 320, 240>>
BoxNinety == <<10, 10, 576, 432>>
BoxLeftEdge == <<0, 100, 200, 200>>
BoxTopEdge == <<100, 0, 200, 200>>
BoxEighty == <<50, 50, 512, 200>>
BoxOutside == <<500, 100, 200, 200>>
BoxSmall == <<100, 100, 70, 70>>
BoxTiny == <<100, 100, 50, 50>>

\* The frames given to the localizer: what each face detector finds on them.
LocalizerFrames ==
    {frame \in [fer_boxes : {<<>>, <<BoxNear>>, <<BoxSmall>>, <<BoxTiny>>},
                fer_raises : BOOLEAN,
                cascade_boxes : {<<>>, <<BoxFar>>},
                cascade_raises : BOOLEAN,
                dlib_boxes : {<<>>, <<BoxNear>>, <<BoxTiny>>},
                dlib_raises : BOOLEAN] :
        /\ frame.fer_raises => frame.fer_boxes = <<>>
        /\ frame.cascade_raises => frame.cascade_boxes = <<>>
        /\ frame.dlib_raises => frame.dlib_boxes = <<>>}

\* The candidate lists given to _select_best_face on a 640x480 frame.
CandidateLists ==
    {<<>>, <<BoxNear>>, <<BoxFar>>, <<BoxHalf>>, <<BoxNinety>>, <<BoxLeftEdge>>,
     <<BoxTopEdge>>, <<BoxEighty>>, <<BoxOutside>>, <<BoxSmall>>,
     <<BoxNear, BoxFar>>, <<BoxFar, BoxNear>>, <<BoxFar, BoxNinety>>}

\* A call of _select_best_face(faces, frame_shape).
SelectFace(faces) ==
    \E best \in {SelectBestFace(faces, face_history)} :
        /\ face_box' = best.bbox
        /\ face_history' = best.face_history
        /\ UNCHANGED <<emotion_history, frame_count, last_valid_emotions, fer_detector,
                       opencv_cascade, dlib_detector, stable_probs, result>>
        /\ UNCHANGED <<appVars, genVars, utilVars, sessionVars>>

SelectBestFaceCall == \E faces \in CandidateLists : SelectFace(faces)

\* A call of _detect_face_multi_method(frame).
DetectFace(frame, env) ==
    \E loc \in {DetectFaceMultiMethod(frame, face_history, fer_detector,
                                      opencv_cascade, dlib_detector, env)} :
        /\ face_box' = loc.bbox
        /\ face_history' = loc.face_history
        /\ fer_detector' = loc.fer
        /\ opencv_cascade' = loc.cascade
        /\ dlib_detector' = loc.dlib
        /\ UNCHANGED <<emotion_history, frame_count, last_valid_emotions,
                       stable_probs, result>>
        /\ UNCHANGED <<appVars, genVars, utilVars, sessionVars>>

DetectFaceCall ==
    \E frame \in LocalizerFrames :
        \E env \in [fer : InitOutcomes(fer_detector),
                    cascade : InitOutcomes(opencv_cascade),
                    dlib : InitOutcomes(dlib_detector)] :
            DetectFace(frame, env)

DetectEmotionsCall ==
    \E frame \in Frames \cup {None} :
        \E env \in [fer : InitOutcomes(fer_detector),
                    cascade : InitOutcomes(opencv_cascade),
                    dlib : InitOutcomes(dlib_detector)] :
            DetectEmotions(frame, env)

StableEmotionsCall ==
    \E current_emotions \in RawVectors \cup {None} : StableEmotions(current_emotions)

Tick ==
    \E dominant_emotion \in DominantLabels, fused_metrics \in FusedMetrics,
       outcome \in Outcomes :
        LiveDashboard(dominant_emotion, fused_metrics, outcome)

AppInit ==
    /\ session_active = FALSE
    /\ simulation_mode = FALSE
    /\ stress_counter = Absent
    /\ distraction_counter = Absent
    /\ last_screenshot_time = [k \in EventKeys |-> Absent]
    /\ screenshots = <<>>
    /\ now = 0

(***************************************************************************)
(* The fallback generator (src/fallback/rule_based.py).  Values are in     *)
(* hundred-thousandths, angles in thousandths of a radian.                 *)
(***************************************************************************)

\* np.sin on [0, pi], in thousandths, by Bhaskara's rational approximation
\* 16 y (pi - y) / (5 pi^2 - 4 y (pi - y)), which is within 0.003 of the sine.
SinHalf(y) ==
    LET p == (y * (3142 - y)) \div 1000
    IN  (16000 * p) \div (49361 - 4 * p)

\* np.sin and np.cos of an angle >= 0.
Sin(x) ==
    LET r == x % 6283
    IN  IF r <= 3142 THEN SinHalf(r) ELSE -SinHalf(r - 3142)

Cos(x) == Sin(x + 1571)

\* max(0.01, v) without the floor.
FloorWeightNone(v) == v

\* max(0.01, v)
FloorWeight(v) == IF v < 1000 THEN 1000 ELSE v

\* The unnormalized weights of generate_face_emotions at tick t: the three
\* branches on current_scenario, with time_mod = t * 0.1.
HappyWeights(t) ==
    [happy    |-> FloorWeight(40000 + 30 * Sin(100 * t)),
     neutral  |-> FloorWeight(30000 + 10 * Cos(70 * t)),
     surprise |-> FloorWeight(10000 + 10 * Sin(130 * t)),
     sad      |-> FloorWeight(5000 + 5 * Sin(50 * t)),
     angry    |-> FloorWeight(5000 + 5 * Cos(30 * t)),
     fear     |-> FloorWeight(3000 + 2 * Sin(200 * t)),
     disgust  |-> FloorWeight(2000 + 3 * Cos(170 * t))]

StressedWeights(t) ==
    [angry    |-> FloorWeight(30000 + 20 * Sin(120 * t)),
     fear     |-> FloorWeight(20000 + 15 * Cos(80 * t)),
     sad      |-> FloorWeight(15000 + 10 * Sin(60 * t)),
     neutral  |-> FloorWeight(20000 + 10 * Cos(100 * t)),
     happy    |-> FloorWeight(5000 + 5 * Sin(30 * t)),
     surprise |-> FloorWeight(5000 + 5 * Cos(150 * t)),
     disgust  |-> FloorWeight(5000 + 5 * Sin(210 * t))]

NormalWeights(t) ==
    [neutral  |-> FloorWeight(40000 + 20 * Sin(50 * t)),
     happy    |-> FloorWeight(25000 + 15 * Cos(70 * t)),
     sad      |-> FloorWeight(10000 + 8 * Sin(30 * t)),
     surprise |-> FloorWeight(8000 + 7 * Cos(110 * t)),
     angry    |-> FloorWeight(7000 + 6 * Sin(90 * t)),
     fear     |-> FloorWeight(5000 + 4 * Cos(130 * t)),
     disgust  |-> FloorWeight(5000 + 4 * Sin(170 * t))]

ScenarioWeights(scenario, t) ==
    IF scenario = "happy" THEN HappyWeights(t)
    ELSE IF scenario = "stressed" THEN StressedWeights(t)
    ELSE NormalWeights(t)

\* sum(emotions.values())
TotalWeight(w) ==
    w.angry + w.disgust + w.fear + w.happy + w.sad + w.surprise + w.neutral

\* An emotion vector of the generator is kept as the exact fractions
\* parts[label] / total.  The "else" of the normalization is the fixed neutral vector.
FallbackNeutral ==
    [parts |-> [neutral |-> 70, happy |-> 10, sad |-> 5, angry |-> 5, fear |-> 5,
                surprise |-> 3, disgust |-> 2],
     total |-> 100]

\* {k: v/total for k, v in emotions.items()} when total > 0.
Normalize(weights) ==
    IF TotalWeight(weights) > 0
    THEN [parts |-> weights, total |-> TotalWeight(weights)]
    ELSE FallbackNeutral

\* The scenarios random.choice draws from.
Scenarios == {"normal", "happy", "stressed"}

ScenarioPeriod == 20    \* if self.scenario_timer > 20

\* if self.scenario_timer > 20
ScenarioDue(timer) == timer > ScenarioPeriod

\* FallbackEmotionGenerator.__init__
GeneratorInit ==
    fallback_generator =
        [last_face_emotions |-> [parts |-> [angry |-> 1, disgust |-> 1, fear |-> 1,
                                            happy |-> 1, sad |-> 1, surprise |-> 1,
                                            neutral |-> 1],
                                 total |-> 7],
         last_audio_stress |-> 50000,
         emotion_trend |-> 0,
         stress_trend |-> 0,
         time_factor |-> 0,
         scenario_timer |-> 0,
         current_scenario |-> "normal"]

\* The generator generate_face_emotions() leaves; choice is what random.choice
\* returns if it is called.
AfterFaceEmotions(generator, choice) ==
    LET time_factor == generator.time_factor + 1
        emotions == Normalize(ScenarioWeights(generator.current_scenario, time_factor))
        scenario_timer == generator.scenario_timer + 1
    IN  [generator EXCEPT
            !.time_factor = time_factor,
            !.current_scenario = IF ScenarioDue(scenario_timer) THEN choice ELSE @,
            !.scenario_timer = IF ScenarioDue(scenario_timer) THEN 0 ELSE scenario_timer,
            !.last_face_emotions = emotions]

\* generate_face_emotions()
GenerateFaceEmotions(choice) ==
    /\ fallback_generator.time_factor < MaxTicks
    /\ fallback_generator' = AfterFaceEmotions(fallback_generator, choice)
    /\ UNCHANGED <<appVars, faceVars, utilVars, sessionVars>>

\* random.uniform(-0.1, 0.1)
Noises == {-10000, 0, 10000}

\* max(0.0, min(1.0, stress))
Clamp(stress) == IF stress < 0 THEN 0 ELSE IF stress > 100000 THEN 100000 ELSE stress

\* base_stress, with time_mod = time_factor * 0.08.
BaseStress(scenario, t) ==
    IF scenario = "stressed" THEN 70000 + 20 * Sin(120 * t)
    ELSE IF scenario = "happy" THEN 20000 + 15 * Sin(64 * t)
    ELSE 40000 + 20 * Sin(80 * t)

\* The generator generate_audio_stress() leaves; noise is what random.uniform returns.
AfterAudioStress(generator, noise) ==
    [generator EXCEPT
        !.last_audio_stress =
            Clamp(BaseStress(generator.current_scenario, generator.time_factor) + noise)]

\* generate_audio_stress()
GenerateAudioStress(noise) ==
    /\ fallback_generator' = AfterAudioStress(fallback_generator, noise)
    /\ UNCHANGED <<appVars, faceVars, utilVars, sessionVars>>

\* live_dashboard in simulation mode: generate_face_emotions() and then
\* generate_audio_stress() on the same generator.
SimulationFrame(choice, noise) ==
    /\ fallback_generator.time_factor < MaxTicks
    /\ fallback_generator' =
           AfterAudioStress(AfterFaceEmotions(fallback_generator, choice), noise)
    /\ UNCHANGED <<appVars, faceVars, utilVars, sessionVars>>

\* The arguments simulate_scenario is called with.
ScenarioTypes == {"normal", "happy", "stressed", "confused"}

\* random.uniform(-0.3, 0.3)
Trends == {-30000, 30000}

\* simulate_scenario storing its argument as the current scenario.
SimulateScenarioStored(scenario_type, emotion_trend, stress_trend) ==
    /\ fallback_generator' =
           [fallback_generator EXCEPT !.current_scenario = scenario_type,
                                      !.emotion_trend = emotion_trend,
                                      !.stress_trend = stress_trend]
    /\ UNCHANGED <<appVars, faceVars, utilVars, sessionVars>>

\* simulate_scenario(scenario_type); the trends are what random.uniform returns
\* in the "normal" branch.
SimulateScenario(scenario_type, emotion_trend, stress_trend) ==
    /\ fallback_generator' =
           IF scenario_type = "stressed"
           THEN [fallback_generator EXCEPT !.emotion_trend = -80000, !.stress_trend = 80000]
           ELSE IF scenario_type = "happy"
           THEN [fallback_generator EXCEPT !.emotion_trend = 80000, !.stress_trend = -50000]
           ELSE IF scenario_type = "confused"
           THEN [fallback_generator EXCEPT !.emotion_trend = 0, !.stress_trend = 30000]
           ELSE [fallback_generator EXCEPT !.emotion_trend = emotion_trend,
                                           !.stress_trend = stress_trend]
    /\ UNCHANGED <<appVars, faceVars, utilVars, sessionVars>>

GenerateFaceEmotionsCall == \E choice \in Scenarios : GenerateFaceEmotions(choice)

GenerateAudioStressCall == \E noise \in Noises : GenerateAudioStress(noise)

SimulationFrameCall ==
    \E choice \in Scenarios, noise \in Noises : SimulationFrame(choice, noise)

SimulateScenarioCall ==
    \E scenario_type \in ScenarioTypes :
        \E emotion_trend \in Trends, stress_trend \in Trends :
            SimulateScenario(scenario_type, emotion_trend, stress_trend)

(***************************************************************************)
(* The session aggregator (src/utils.py).  A data frame is the sequence of *)
(* its rows, each with a stress and an engagement value in hundredths; the *)
(* timestamp of a row is its index.  A score the functions return is kept  *)
(* as the exact fraction num / den.                                        *)
(***************************************************************************)
RowStress == {0, 30, 100}
RowEngagement == {0, 100}
Rows == [stress : RowStress, engagement : RowEngagement]

RECURSIVE FramesOfLength(_)
FramesOfLength(n) ==
    IF n = 0 THEN {<<>>}
    ELSE {Append(frame, row) : frame \in FramesOfLength(n - 1), row \in Rows}

DataFrames == UNION {FramesOfLength(n) : n \in 0..MaxRows}

\* df[column].sum()
RECURSIVE ColumnSum(_, _)
ColumnSum(frame, column) ==
    IF frame = <<>> THEN 0
    ELSE frame[Len(frame)][column] + ColumnSum(SubSeq(frame, 1, Len(frame) - 1), column)

\* df[column].idxmax(): the first row holding the maximum.
IdxMax(frame, column) ==
    CHOOSE i \in 1..Len(frame) :
        /\ \A j \in 1..Len(frame) : frame[j][column] <= frame[i][column]
        /\ \A j \in 1..(i - 1) : frame[j][column] < frame[i][column]

\* The sum of the squared deviations of n * x from the column sum.
RECURSIVE SquaredDeviations(_, _, _, _)
SquaredDeviations(frame, column, n, total) ==
    IF frame = <<>> THEN 0
    ELSE (n * frame[Len(frame)][column] - total) * (n * frame[Len(frame)][column] - total)
         + SquaredDeviations(SubSeq(frame, 1, Len(frame) - 1), column, n, total)

\* max(0, 1 - df['stress'].var()): the sample variance (n - 1 in the denominator)
\* of a single row is NaN, and max(0, nan) is 0.
StabilityScore(frame) ==
    LET n == Len(frame)
        den == n * n * (n - 1) * 10000
        num == den - SquaredDeviations(frame, "stress", n, ColumnSum(frame, "stress"))
    IN  IF n = 1 THEN [num |-> 0, den |-> 1]
        ELSE IF num < 0 THEN [num |-> 0, den |-> 1]
        ELSE [num |-> num, den |-> den]

\* calculate_session_analytics(df): the dictionary returned, an empty one for an
\* empty frame.  The rows have the three columns the function reads, so the
\* except branch is not taken.
CalculateSessionAnalytics(frame) ==
    IF frame = <<>>
    THEN <<>>
    ELSE [most_stressed |-> [timestamp |-> IdxMax(frame, "stress"),
                             score |-> frame[IdxMax(frame, "stress")].stress],
          most_engaged |-> [timestamp |-> IdxMax(frame, "engagement"),
                            score |-> frame[IdxMax(frame, "engagement")].engagement],
          stability_score |-> StabilityScore(frame),
          longest_stress_duration |-> 5,
          critical_moments |-> <<>>]

\* The weights of the quality score as calculate_session_quality_score has them,
\* in tenths.
QualityStressWeight == 6        \* stress_score * 0.6
QualityEngagementWeight == 4    \* engagement_score * 0.4

\* SESSION_QUALITY_WEIGHTS of config.py, in tenths.
ConfigStressWeight == 4         \* 'stress': 0.4
ConfigEngagementWeight == 3     \* 'engagement': 0.3

\* calculate_session_quality_score(df): with n rows, avg * 100 is sum / n, so the
\* scores are fractions over n and the blend a fraction over 10 n.
CalculateSessionQualityScore(frame) ==
    IF frame = <<>>
    THEN [num |-> 0, den |-> 1]
    ELSE LET n == Len(frame)
             stress_score == IF 100 * n - ColumnSum(frame, "stress") < 0 THEN 0
                             ELSE 100 * n - ColumnSum(frame, "stress")
             engagement_score == ColumnSum(frame, "engagement")
             quality_score1 == QualityStressWeight * stress_score
                               + QualityEngagementWeight * engagement_score
         IN  [num |-> IF quality_score1 < 0 THEN 0
                      ELSE IF quality_score1 > 1000 * n THEN 1000 * n
                      ELSE quality_score1,
              den |-> 10 * n]

UtilInit ==
    /\ df = <<>>
    /\ analytics = <<>>
    /\ quality_score = <<>>

\* A call of calculate_session_analytics(df).
SessionAnalyticsCall ==
    /\ analytics' = <<CalculateSessionAnalytics(df)>>
    /\ UNCHANGED <<df, quality_score>>
    /\ UNCHANGED <<appVars, faceVars, genVars, sessionVars>>

\* A call of calculate_session_quality_score(df).
SessionQualityScoreCall ==
    /\ quality_score' = <<CalculateSessionQualityScore(df)>>
    /\ UNCHANGED <<df, analytics>>
    /\ UNCHANGED <<appVars, faceVars, genVars, sessionVars>>

(***************************************************************************)
(* The session runs of app.py.  Streamlit runs the script once per user    *)
(* action and once per auto-refresh; one action is one run of main(), with *)
(* the buttons and the checkbox as its inputs.  CameraCapture and          *)
(* SessionLogger are used through start(), stop(), is_active,              *)
(* start_session(), log_data() and get_session_dataframe().  The session   *)
(* records are kept as the 'stress' column of the data frame, in           *)
(* hundredths.                                                             *)
(***************************************************************************)
AlertThreshold == 70    \* STRESS_THRESHOLD = 0.7
AlertDuration == 5      \* ALERT_DURATION = 5

\* The fused metrics of these runs: stress at and just above STRESS_THRESHOLD.
SessionStress == {70, 71}
SessionMetrics == [stress : SessionStress, engagement : {11}, confidence : {74}]

\* What the buttons return in one run: at most one of them was pressed.
Buttons == {[start_session |-> FALSE, stop_session |-> FALSE],
            [start_session |-> TRUE, stop_session |-> FALSE],
            [start_session |-> FALSE, stop_session |-> TRUE]}

\* display_stress_alert answering at the threshold too.
DisplayStressAlertAtThreshold(history, threshold, duration) ==
    IF Len(history) < duration
    THEN FALSE
    ELSE \A i \in (Len(history) - duration + 1)..Len(history) : history[i] >= threshold

\* display_stress_alert(stress_history, threshold, duration): whether the alert is
\* shown.
DisplayStressAlert(history, threshold, duration) ==
    IF Len(history) < duration
    THEN FALSE
    ELSE \A i \in (Len(history) - duration + 1)..Len(history) : history[i] > threshold

\* camera.start(): is_active afterwards; started is what start() returns.
CameraStart(is_active, started) == started

\* A camera.stop() that leaves the camera as it is.
CameraStopKept(is_active) == is_active

\* camera.stop(): is_active afterwards.
CameraStop(is_active) == FALSE

\* session_logger.log_data(face_emotions, audio_stress_score, fused_metrics): one
\* record appended to the session's series.
LogData(history, fused_metrics) == Append(history, fused_metrics.stress)

\* "start_session and not session_active" with the second test left out.
StartConditionUnguarded(start_session) == start_session

\* main: if start_session and not st.session_state.session_active
StartCondition(start_session) == start_session /\ ~session_active

\* main: if stop_session and st.session_state.session_active
StopCondition(stop_session) == stop_session /\ session_active

\* One run of the script.  The start and the stop handler end the run with
\* st.rerun(); any other run goes on to live_dashboard, which returns at once when no
\* session is active and otherwise processes one tick: camera, screenshot detector,
\* log_data, stress alert.
ScriptRun(buttons, checkbox, dominant_emotion, fused_metrics, outcome, camera_started) ==
    /\ simulation_mode' = checkbox
    /\ IF StartCondition(buttons.start_session)
       THEN /\ session_active' = TRUE
            /\ screenshots' = SessionLoggerStart
            /\ stress_history' = SessionLoggerStart
            /\ camera_is_active' = IF ~checkbox
                                   THEN CameraStart(camera_is_active, camera_started)
                                   ELSE camera_is_active
            /\ stress_alert' = FALSE
            /\ UNCHANGED <<stress_counter, distraction_counter, last_screenshot_time>>
       ELSE IF StopCondition(buttons.stop_session)
       THEN /\ session_active' = FALSE
            /\ camera_is_active' = CameraStop(camera_is_active)
            /\ stress_alert' = FALSE
            /\ UNCHANGED <<stress_counter, distraction_counter, last_screenshot_time,
                           screenshots, stress_history>>
       ELSE IF ~session_active
       THEN /\ stress_alert' = FALSE
            /\ UNCHANGED <<session_active, stress_counter, distraction_counter,
                           last_screenshot_time, screenshots, stress_history,
                           camera_is_active>>
       ELSE /\ Len(stress_history) < MaxRecords
            /\ camera_is_active' = IF ~checkbox /\ ~camera_is_active
                                   THEN CameraStart(camera_is_active, camera_started)
                                   ELSE camera_is_active
            /\ IF ~checkbox
               THEN AutoScreenshot(dominant_emotion, fused_metrics, outcome)
               ELSE outcome = "ok" /\ UNCHANGED <<stress_counter, distraction_counter,
                                                  last_screenshot_time, screenshots>>
            /\ stress_history' = LogData(stress_history, fused_metrics)
            /\ stress_alert' = DisplayStressAlert(LogData(stress_history, fused_metrics),
                                                  AlertThreshold, AlertDuration)
            /\ UNCHANGED session_active
    /\ UNCHANGED now
    /\ UNCHANGED <<faceVars, genVars, utilVars>>

ScriptRunCall ==
    \E buttons \in Buttons, checkbox \in BOOLEAN, fused_metrics \in SessionMetrics,
       outcome \in Outcomes, camera_started \in BOOLEAN :
        ScriptRun(buttons, checkbox, "neutral", fused_metrics, outcome, camera_started)

\* CameraCapture() and SessionLogger() as the script creates them.
SessionInit ==
    /\ camera_is_active = FALSE
    /\ stress_history = <<>>
    /\ stress_alert = FALSE

Init == AppInit /\ FaceInit /\ GeneratorInit /\ UtilInit /\ SessionInit

Next ==
    \/ StartSession
    \/ StopSession
    \/ SetSimulationMode
    \/ ClockAdvance
    \/ Tick

Spec == Init /\ [][Next]_vars

NextFace == DetectEmotionsCall

SpecFace == Init /\ [][NextFace]_vars

NextStabilizer == StableEmotionsCall

SpecStabilizer == Init /\ [][NextStabilizer]_vars

NextLocalizer == DetectFaceCall

SpecLocalizer == Init /\ [][NextLocalizer]_vars

NextSelector == SelectBestFaceCall

SpecSelector == Init /\ [][NextSelector]_vars

NextGenerator ==
    \/ GenerateFaceEmotionsCall
    \/ GenerateAudioStressCall
    \/ SimulationFrameCall
    \/ SimulateScenarioCall

SpecGenerator == Init /\ [][NextGenerator]_vars

\* The detector ticks of a stretch of sustained stress: live-mode runs of
\* live_dashboard with stress >= 0.85 whose capture succeeds.
SustainedStressTick ==
    \E dominant_emotion \in DominantLabels,
       fused_metrics \in {f \in FusedMetrics : f.stress >= StressLevel} :
        /\ ~simulation_mode
        /\ LiveDashboard(dominant_emotion, fused_metrics, "ok")

NextSustained ==
    \/ StartSession
    \/ ClockAdvance
    \/ SustainedStressTick

NextSession == ScriptRunCall

SpecSession == Init /\ [][NextSession]_vars

\* The script is re-run again and again, and time passes.
SpecSustained ==
    /\ Init /\ [][NextSustained]_vars
    /\ WF_vars(StartSession) /\ WF_vars(ClockAdvance) /\ WF_vars(SustainedStressTick)

\* The functions of utils.py applied to every data frame of up to MaxRows rows.
InitAnalytics ==
    /\ AppInit /\ FaceInit /\ GeneratorInit /\ SessionInit
    /\ df \in DataFrames
    /\ analytics = <<>>
    /\ quality_score = <<>>

NextAnalytics ==
    \/ SessionAnalyticsCall
    \/ SessionQualityScoreCall

SpecAnalytics == InitAnalytics /\ [][NextAnalytics]_vars

(***************************************************************************)
(* The event detector's claims.  A claim about "a tick" is an action       *)
(* property: it is read on every step of live_dashboard, the unprimed      *)
(* variables being the detector before the tick and the primed ones the    *)
(* detector after it.  The firing conditions below are written from the    *)
(* claims' words, not from the blocks above.                               *)
(***************************************************************************)

\* A live-mode run of live_dashboard whose try block ran to its end (the capture, if
\* the tick came to it, did not raise).
DetectorTick(d, f) == ~simulation_mode /\ LiveDashboard(d, f, "ok")

\* A live-mode run of live_dashboard, whether or not its capture raised.
CountingTick(d, f) ==
    ~simulation_mode /\ (LiveDashboard(d, f, "ok") \/ LiveDashboard(d, f, "capture_error"))

Count(c) == IF c = Absent THEN 0 ELSE c
LastFire(key) == IF last_screenshot_time[key] = Absent THEN 0 ELSE last_screenshot_time[key]

StressFires(f) == f.stress >= 85 /\ Count(stress_counter) + 1 >= 3 /\ now - LastFire("STRESS") >= 10
HappyQualifies(d, f) == d = "happy" /\ f.confidence >= 75
HappyFires(d, f) == HappyQualifies(d, f) /\ now - LastFire("HAPPY") >= 10
DistractionFires(f) ==
    f.engagement <= 10 /\ Count(distraction_counter) + 1 >= 5 /\ now - LastFire("DISTRACTION") >= 10

EventsOfType(log, type) == {i \in 1..Len(log) : log[i].type = type}

\* The events a step appended to the log.
Appended == IF Len(screenshots') >= Len(screenshots) /\ SubSeq(screenshots', 1, Len(screenshots)) = screenshots
            THEN SubSeq(screenshots', Len(screenshots) + 1, Len(screenshots'))
            ELSE <<>>

\* C1: from zero counters and no prior STRESS fire, the first and the second
\* consecutive tick with stress >= 0.85 only count (no STRESS event), the third one,
\* with the clock at least 10 past zero, records the one STRESS event of the log, with
\* that tick's stress as score; a tick with stress < 0.85 resets the count and records
\* no STRESS event.
C1_ThreeStressTicks ==
    [][\A d \in DominantLabels, f \in FusedMetrics :
         (last_screenshot_time["STRESS"] = Absent /\ DetectorTick(d, f)) =>
            LET k == Count(stress_counter) IN
            /\ (f.stress >= 85 /\ k < 2) =>
                  /\ stress_counter' = k + 1
                  /\ EventsOfType(screenshots', "STRESS") = {}
                  /\ last_screenshot_time'["STRESS"] = Absent
            /\ (f.stress >= 85 /\ k = 2 /\ now >= 10) =>
                  /\ screenshots' = Append(screenshots,
                        [type |-> "STRESS", score |-> f.stress, timestamp |-> now])
                  /\ Cardinality(EventsOfType(screenshots', "STRESS")) = 1
            /\ f.stress < 85 =>
                  /\ stress_counter' = 0
                  /\ EventsOfType(screenshots', "STRESS") = {}
    ]_vars

\* C1's case: the third tick fired, the log's only event is its STRESS event.
C1_Witness ==
    /\ Len(screenshots) = 1
    /\ screenshots[1] = [type |-> "STRESS", score |-> 85, timestamp |-> 10]
    /\ last_screenshot_time["STRESS"] = 10
    /\ stress_counter = 0

StressEventsApart(log) ==
    \A i, j \in EventsOfType(log, "STRESS") :
        i < j => log[j].timestamp - log[i].timestamp >= 10

\* C2: two STRESS events of the log are at least 10 time-units apart, and no tick within
\* 10 time-units of the last STRESS fire records a STRESS event, whatever its inputs.
C2_StressCooldown ==
    [][/\ StressEventsApart(screenshots')
       /\ \A d \in DominantLabels, f \in FusedMetrics :
            (/\ last_screenshot_time["STRESS"] # Absent
             /\ now - last_screenshot_time["STRESS"] < 10
             /\ CountingTick(d, f)) =>
                 EventsOfType(Appended, "STRESS") = {} /\ Len(screenshots') >= Len(screenshots)
    ]_vars

\* C2's case: a second STRESS event, 10 time-units after the first.
C2_Witness ==
    /\ Len(screenshots) = 2
    /\ screenshots[1].type = "STRESS" /\ screenshots[2].type = "STRESS"
    /\ screenshots[2].timestamp = screenshots[1].timestamp + 10

\* C3: no two HAPPY events of the log are less than 10 time-units apart.
C3_HappyEventsApart ==
    \A i, j \in EventsOfType(screenshots, "HAPPY") :
        i < j => screenshots[j].timestamp - screenshots[i].timestamp >= 10

C5_Distraction ==
    [][\A d \in DominantLabels, f \in FusedMetrics :
         CountingTick(d, f) =>
            LET k == Count(distraction_counter) IN
            /\ f.engagement > 10 =>
                  /\ distraction_counter' = 0
                  /\ last_screenshot_time'["DISTRACTION"] = last_screenshot_time["DISTRACTION"]
            /\ f.engagement <= 10 =>
                  IF k + 1 >= 5 /\ now - LastFire("DISTRACTION") >= 10
                  THEN /\ distraction_counter' = 0
                       /\ last_screenshot_time'["DISTRACTION"] = now
                  ELSE /\ distraction_counter' = k + 1
                       /\ last_screenshot_time'["DISTRACTION"] = last_screenshot_time["DISTRACTION"]
            /\ \A i \in EventsOfType(Appended, "DISTRACTION") :
                  /\ f.engagement <= 10
                  /\ k + 1 >= 5
                  /\ now - LastFire("DISTRACTION") >= 10
                  /\ Appended[i].score = f.engagement
                  /\ Appended[i].timestamp = now
                  /\ distraction_counter' = 0
                  /\ last_screenshot_time'["DISTRACTION"] = now
    ]_vars

\* C5's case: a DISTRACTION event of the tick that fired DISTRACTION.
C5_Witness ==
    /\ Len(screenshots) >= 1
    /\ screenshots[Len(screenshots)] = [type |-> "DISTRACTION", score |-> 10, timestamp |-> 10]
    /\ last_screenshot_time["DISTRACTION"] = 10
    /\ distraction_counter = 0

C8_ResetAtSessionStart ==
    [][(~session_active /\ session_active') =>
          /\ stress_counter' \in {Absent, 0}
          /\ distraction_counter' \in {Absent, 0}
          /\ \A key \in EventKeys : last_screenshot_time'[key] = Absent
    ]_vars

(***************************************************************************)
(* The face stabilizer's and detect_emotions' claims.                      *)
(***************************************************************************)
\* The neutral prior as the claims give it: neutral 0.60, happy 0.15, others 0.05.
NeutralPrior ==
    [angry |-> 50, disgust |-> 50, fear |-> 50, happy |-> 150,
     sad |-> 50, surprise |-> 50, neutral |-> 600]

\* C9: a stabilizer call with a null or empty raw vector, made before any valid
\* vector was given, returns exactly the neutral prior.
C9_NullBeforeValidIsNeutral ==
    [][(emotion_history = <<>> /\ last_valid_emotions = None /\ StableEmotions(None))
          => stable_probs' = NeutralPrior
    ]_vars

\* C9's case: the call was made on a stabilizer that never saw a valid vector.
C9_Witness ==
    /\ emotion_history = <<>>
    /\ last_valid_emotions = None
    /\ stable_probs = NeutralPrior

\* A detect_emotions call in which no raw vector reaches the stabilizer: no frame, no
\* face box (or an exception, which returns the box-less output), an unavailable
\* classifier, a raising classifier or an empty classifier result.
NoDetection(frame) ==
    \/ frame = None
    \/ result'.bbox = <<0, 0, 0, 0>>
    \/ fer_detector' # "ok"
    \/ frame.classify_raises
    \/ frame.emotions = <<>>

\* C10 as claimed: every such call returns as probs the last valid stabilized vector
\* if there is one, and the neutral prior only if there is none.
C10_AbsenceReturnsLastValid ==
    [][\A frame \in Frames \cup {None} :
          \A env \in [fer : BOOLEAN, cascade : BOOLEAN, dlib : BOOLEAN] :
             (DetectEmotions(frame, env) /\ NoDetection(frame)) =>
                result'.probs = IF last_valid_emotions = None
                                THEN NeutralPrior
                                ELSE last_valid_emotions
    ]_vars

\* C11: a stabilizer call with a valid raw vector that leaves fewer than 3 vectors in
\* the history returns that raw vector unchanged and stores it as the last valid value.
C11_ShortHistoryPassThrough ==
    [][\A raw \in RawVectors :
          (Len(emotion_history) + 1 < 3 /\ StableEmotions(raw)) =>
             /\ stable_probs' = raw
             /\ last_valid_emotions' = raw
    ]_vars

\* C11's case: the second vector was given, after a different first one.
C11_Witness ==
    /\ emotion_history = <<RawHappy, RawSad>>
    /\ stable_probs = RawSad
    /\ last_valid_emotions = RawSad

\* The weights of the claims, in tenths, oldest first.
SmoothingWeights == <<1, 2, 3, 4>>

\* The last k entries of a sequence, k being at most 4.
Recent(seq) ==
    IF Len(seq) <= 4 THEN seq ELSE SubSeq(seq, Len(seq) - 3, Len(seq))

\* The weights right-aligned to the k most recent entries.
RecentWeights(k) == SubSeq(SmoothingWeights, 4 - k + 1, 4)

RECURSIVE WeightedSum(_, _, _)
WeightedSum(entries, weights, label) ==
    IF entries = <<>> THEN 0
    ELSE Head(entries)[label] * Head(weights)
         + WeightedSum(Tail(entries), Tail(weights), label)

RECURSIVE Total(_)
Total(weights) == IF weights = <<>> THEN 0 ELSE Head(weights) + Total(Tail(weights))

\* C12 as claimed: a call with a valid raw vector that leaves 3 or more vectors
\* in the history returns, for every label, the average of the (at most 4) most recent
\* history entries under the weights 0.1, 0.2, 0.3, 0.4 right-aligned to the most
\* recent entries, divided by the sum of the weights used.
C12_RightAlignedAverage ==
    [][\A raw \in RawVectors :
          (StableEmotions(raw) /\ Len(emotion_history') >= 3) =>
             LET entries == Recent(emotion_history')
                 weights == RecentWeights(Len(entries))
             IN  \A label \in DOMAIN raw :
                    stable_probs'[label] * Total(weights)
                        = WeightedSum(entries, weights, label)
    ]_vars

\* C13 as claimed: once the same raw vector v was given on the 4 most recent valid
\* calls, whatever the history held before, the output (kept as the last valid value)
\* is v.
C13_FourRepeatsConverge ==
    \A v \in RawVectors :
        (/\ Len(emotion_history) >= 4
         /\ \A i \in (Len(emotion_history) - 3)..Len(emotion_history) :
               emotion_history[i] = v)
        => (last_valid_emotions = v /\ stable_probs = v)

\* The last min(5, Len(seq)) entries of seq, in order.
LastFive(seq) == IF Len(seq) <= 5 THEN seq ELSE SubSeq(seq, Len(seq) - 4, Len(seq))

\* C14: a call with a valid raw vector leaves in the history the last (at most 5)
\* valid raw vectors in arrival order, the oldest being evicted first; a call with a
\* null or empty raw vector leaves the history and the last valid value unchanged.
C14_RollingHistory ==
    [][/\ \A raw \in RawVectors :
             StableEmotions(raw) =>
                emotion_history' = LastFive(Append(emotion_history, raw))
       /\ StableEmotions(None) =>
             /\ emotion_history' = emotion_history
             /\ last_valid_emotions' = last_valid_emotions
       /\ Len(emotion_history') <= 5
    ]_vars

\* C14's case: the history is full, holding five vectors in their arrival order, and
\* the value smoothed over it is still the last valid one.
C14_Witness ==
    /\ emotion_history = <<RawHappy, RawHappy, RawHappy, RawHappy, RawSad>>
    /\ last_valid_emotions = RawHappy
    /\ stable_probs = RawHappy

\* A vector over the seven labels with non-negative values that sum to 1.
Distribution(vector) ==
    /\ DOMAIN vector = {"angry", "disgust", "fear", "happy", "sad", "surprise", "neutral"}
    /\ \A label \in DOMAIN vector : vector[label] >= 0
    /\ vector.angry + vector.disgust + vector.fear + vector.happy
         + vector.sad + vector.surprise + vector.neutral = 1000

\* C15: the raw vectors given being distributions, every vector the stabilizer
\* returns or stores is a distribution.
C15_OutputsAreDistributions ==
    /\ \A raw \in RawVectors : Distribution(raw)
    /\ stable_probs # None => Distribution(stable_probs)
    /\ last_valid_emotions # None => Distribution(last_valid_emotions)

\* C15's case: a vector smoothed over a full history of different raw vectors.
C15_Witness ==
    /\ Len(emotion_history) = 5
    /\ emotion_history[1] # emotion_history[2]
    /\ emotion_history[3] # emotion_history[4]
    /\ stable_probs # None
    /\ stable_probs \notin RawVectors
    /\ stable_probs = last_valid_emotions

\* The seven labels, as a set.
LabelSet == {"angry", "disgust", "fear", "happy", "sad", "surprise", "neutral"}

\* A well-typed result whose emotion is a label of maximal probability in its probs.
WellTyped(res) ==
    /\ DOMAIN res = {"emotion", "confidence", "negative_score", "bbox", "probs"}
    /\ DOMAIN res.probs = LabelSet
    /\ Len(res.bbox) = 4
    /\ res.emotion \in LabelSet
    /\ \A label \in LabelSet : res.probs[label] <= res.probs[res.emotion]

\* The frames C16 names: no frame; no face; FER raising on the frame; a face on which
\* the classifier raises; a face on which the classifier returns no result.
FailingFrames ==
    {None,
     [fer_boxes |-> <<>>, fer_raises |-> FALSE, cascade_boxes |-> <<>>,
      cascade_raises |-> FALSE, dlib_boxes |-> <<>>, dlib_raises |-> FALSE,
      emotions |-> <<RawHappy>>, classify_raises |-> FALSE],
     [fer_boxes |-> <<>>, fer_raises |-> TRUE, cascade_boxes |-> <<BoxNear>>,
      cascade_raises |-> FALSE, dlib_boxes |-> <<>>, dlib_raises |-> FALSE,
      emotions |-> <<RawHappy>>, classify_raises |-> FALSE],
     [fer_boxes |-> <<BoxNear>>, fer_raises |-> FALSE, cascade_boxes |-> <<>>,
      cascade_raises |-> FALSE, dlib_boxes |-> <<>>, dlib_raises |-> FALSE,
      emotions |-> <<>>, classify_raises |-> TRUE],
     [fer_boxes |-> <<BoxNear>>, fer_raises |-> FALSE, cascade_boxes |-> <<>>,
      cascade_raises |-> FALSE, dlib_boxes |-> <<>>, dlib_raises |-> FALSE,
      emotions |-> <<>>, classify_raises |-> FALSE]}

\* C16: a detect_emotions call returns for a null frame, a frame without face, an
\* unavailable or raising backend and an empty classifier result, and what any call
\* returns is a well-typed result whose emotion has maximal probability in probs.
C16_AlwaysWellTypedResult ==
    /\ result # None => WellTyped(result)
    /\ frame_count < MaxFrames =>
          \A frame \in FailingFrames, init_ok \in InitOutcomes(fer_detector) :
             ENABLED DetectEmotions(frame, [fer |-> init_ok, cascade |-> init_ok,
                                            dlib |-> init_ok])

\* C16's case: on the first frame a face was found and the classifier raised; the
\* call returned the neutral output without box.
C16_Witness ==
    /\ frame_count = 1
    /\ face_history # <<>>
    /\ fer_detector = "ok"
    /\ result = [emotion |-> "neutral", confidence |-> 0, negative_score |-> 750,
                 bbox |-> <<0, 0, 0, 0>>,
                 probs |-> [angry |-> 50, disgust |-> 50, fear |-> 50, happy |-> 150,
                            sad |-> 50, surprise |-> 50, neutral |-> 600]]


\* ---------------------------------------------------------------------------
\* The candidate list each backend yields on a frame once its singleton has been
\* fetched: nothing when the backend is unavailable or raises.
FerYield(frame, env) ==
    IF GetBackend(fer_detector, env.fer) = "ok" /\ ~frame.fer_raises
    THEN SelectSeq(frame.fer_boxes, BackendBox) ELSE <<>>

CascadeYield(frame, env) ==
    IF GetBackend(opencv_cascade, env.cascade) = "ok" /\ ~frame.cascade_raises
    THEN frame.cascade_boxes ELSE <<>>

DlibYield(frame, env) ==
    IF GetBackend(dlib_detector, env.dlib) = "ok" /\ ~frame.dlib_raises
    THEN SelectSeq(frame.dlib_boxes, BackendBox) ELSE <<>>

\* The candidates of the first backend, in the order FER, cascade, dlib, that
\* yields any.
FirstYield(frame, env) ==
    IF FerYield(frame, env) # <<>> THEN FerYield(frame, env)
    ELSE IF CascadeYield(frame, env) # <<>> THEN CascadeYield(frame, env)
    ELSE DlibYield(frame, env)

\* C17: the localizer tries FER, then the OpenCV cascade, then dlib, and stops at
\* the first backend that yields candidates: the returned box is selected from that
\* backend's candidates alone, and a backend after it is not consulted (its
\* singleton is left as it was, so a backend never fetched stays unset).
C17_FirstBackendWins ==
    [][\A frame \in LocalizerFrames :
         \A env \in [fer : InitOutcomes(fer_detector),
                     cascade : InitOutcomes(opencv_cascade),
                     dlib : InitOutcomes(dlib_detector)] :
            DetectFace(frame, env) =>
                /\ face_box' = SelectBestFace(FirstYield(frame, env), face_history).bbox
                /\ FerYield(frame, env) # <<>> =>
                       /\ opencv_cascade' = opencv_cascade
                       /\ dlib_detector' = dlib_detector
                /\ (FerYield(frame, env) = <<>> /\ CascadeYield(frame, env) # <<>>) =>
                       /\ opencv_cascade' # "unset"
                       /\ dlib_detector' = dlib_detector
                /\ (FerYield(frame, env) = <<>> /\ CascadeYield(frame, env) = <<>>) =>
                       /\ opencv_cascade' # "unset"
                       /\ dlib_detector' # "unset"]_vars

\* FER yielded a box, so the cascade and dlib were never fetched.
C17_Witness ==
    /\ fer_detector = "ok" /\ opencv_cascade = "unset" /\ dlib_detector = "unset"
    /\ face_box = BoxNear /\ face_history = <<BoxNear>>


\* ---------------------------------------------------------------------------
\* The filter as the claim words it: not smaller than the minimum size, not
\* extending outside the frame, not covering more than 80% of either dimension.
KeptAsClaimed(face) ==
    /\ face[3] >= MinFaceSize /\ face[4] >= MinFaceSize
    /\ face[1] >= 0 /\ face[2] >= 0
    /\ face[1] + face[3] <= FrameWidth /\ face[2] + face[4] <= FrameHeight
    /\ 10 * face[3] <= 8 * FrameWidth /\ 10 * face[4] <= 8 * FrameHeight

\* C18: a single candidate box is kept (a box is returned) exactly when it is not
\* smaller than the minimum size, lies within the frame bounds and covers at most
\* 80% of each frame dimension; a box touching the left or top edge and a box of
\* exactly 80% of the width are kept.
C18_FilterKeepsEdgeBoxes ==
    [][\A faces \in CandidateLists :
         (Len(faces) = 1 /\ SelectFace(faces)) =>
             (face_box' # None <=> KeptAsClaimed(faces[1]))]_vars


\* ---------------------------------------------------------------------------
Area(face) == face[3] * face[4]

\* r is a * 0.7 + b * 0.3 truncated to an integer.
TruncatedBlend(r, a, b) == 10 * r <= 7 * a + 3 * b /\ 7 * a + 3 * b < 10 * (r + 1)

\* C19: the selected box is the valid candidate of largest area; with a previous
\* box whose top-left corner is more than 50 px away in x or in y the returned box
\* is 0.7 * new + 0.3 * previous truncated, in all four coordinates, and otherwise
\* it is the new box as-is.  The previous box is the last box of the history, which
\* is the box the last successful call returned: a returned box is appended and an
\* unsuccessful call leaves the history as it was.
C19_BlendOnJump ==
    [][\A faces \in CandidateLists :
         SelectFace(faces) =>
             IF face_box' = None
             THEN face_history' = face_history
             ELSE /\ face_box' = face_history'[Len(face_history')]
                  /\ \E i \in 1..Len(faces) :
                        LET new == faces[i]
                            previous == face_history[Len(face_history)]
                        IN  /\ ValidFace(new)
                            /\ \A j \in 1..Len(faces) :
                                   ValidFace(faces[j]) => Area(faces[j]) <= Area(new)
                            /\ IF /\ face_history # <<>>
                                  /\ \/ Abs(new[1] - previous[1]) > 50
                                     \/ Abs(new[2] - previous[2]) > 50
                               THEN \A k \in 1..4 :
                                        TruncatedBlend(face_box'[k], new[k], previous[k])
                               ELSE face_box' = new]_vars

\* BoxFar arrived 100 px to the right of the previous box BoxNear and was blended.
C19_Witness ==
    /\ face_history = <<BoxNear, <<170, 100, 228, 228>>>>
    /\ face_box = <<170, 100, 228, 228>>

\* A box within 50 px of a previous blended box was returned as it came.
C19_WitnessAsIs ==
    /\ Len(face_history) = 3
    /\ face_history[2] = <<130, 100, 212, 212>>
    /\ face_history[3] = BoxNear
    /\ face_box = BoxNear


\* ---------------------------------------------------------------------------
\* A box of positive width and height lying fully inside the frame.
InsideFrame(box) ==
    /\ box[3] > 0 /\ box[4] > 0
    /\ box[1] >= 0 /\ box[2] >= 0
    /\ box[1] + box[3] <= FrameWidth /\ box[2] + box[4] <= FrameHeight

\* C20: every box the localizer returns, blended boxes included, has positive
\* width and height and lies fully inside the 640x480 frame, and the box history
\* never holds more than 3 boxes.
C20_BoxesInsideFrame ==
    /\ face_box # None => InsideFrame(face_box)
    /\ \A i \in 1..Len(face_history) : InsideFrame(face_history[i])
    /\ Len(face_history) <= 3

\* A full history whose last returned box is a blend of two detector boxes.
C20_Witness ==
    /\ Len(face_history) = 3
    /\ face_box # None
    /\ face_box \notin {BoxNear, BoxFar, BoxHalf}
    /\ face_box = face_history[3]


\* ---------------------------------------------------------------------------
\* A backend fails on a frame when it is unavailable or raises at run time.
FerFails(frame, env) == GetBackend(fer_detector, env.fer) = "failed" \/ frame.fer_raises

CascadeFails(frame, env) ==
    GetBackend(opencv_cascade, env.cascade) = "failed" \/ frame.cascade_raises

DlibFails(frame, env) == GetBackend(dlib_detector, env.dlib) = "failed" \/ frame.dlib_raises

\* C21: a backend that is unavailable or raises does not end the localization: the
\* next backend is consulted and its candidates are used, and when every backend
\* fails or yields nothing the call returns null and leaves the box history alone.
C21_FailingBackendSkipped ==
    [][\A frame \in LocalizerFrames :
         \A env \in [fer : InitOutcomes(fer_detector),
                     cascade : InitOutcomes(opencv_cascade),
                     dlib : InitOutcomes(dlib_detector)] :
            DetectFace(frame, env) =>
                /\ FerFails(frame, env) =>
                       /\ opencv_cascade' # "unset"
                       /\ CascadeYield(frame, env) # <<>> =>
                              face_box' = SelectBestFace(frame.cascade_boxes, face_history).bbox
                /\ (FerFails(frame, env) /\ CascadeFails(frame, env)) =>
                       /\ dlib_detector' # "unset"
                       /\ DlibYield(frame, env) # <<>> =>
                              face_box' = SelectBestFace(DlibYield(frame, env), face_history).bbox
                /\ (/\ FerYield(frame, env) = <<>>
                    /\ CascadeYield(frame, env) = <<>>
                    /\ DlibYield(frame, env) = <<>>) =>
                       /\ face_box' = None
                       /\ face_history' = face_history]_vars

\* FER and the cascade are unavailable and dlib found the face.
C21_Witness ==
    /\ fer_detector = "failed" /\ opencv_cascade = "failed" /\ dlib_detector = "ok"
    /\ face_box = BoxNear /\ face_history = <<BoxNear>>

\* All three backends are unavailable and a call returned null.
C21_WitnessAllFailed ==
    /\ fer_detector = "failed" /\ opencv_cascade = "failed" /\ dlib_detector = "failed"
    /\ face_box = None /\ face_history = <<>>


\* ---------------------------------------------------------------------------
\* C22: counting generate_face_emotions calls from construction (time_factor
\* counts them), the scenario is re-drawn at the end of the calls number 20, 40,
\* 60, ... and changes at no other call.
C22_RedrawEveryTwentyCalls ==
    [][\A choice \in Scenarios :
         GenerateFaceEmotions(choice) =>
             IF fallback_generator'.time_factor % 20 = 0
             THEN fallback_generator'.current_scenario = choice
             ELSE fallback_generator'.current_scenario =
                      fallback_generator.current_scenario]_vars


\* ---------------------------------------------------------------------------
\* C23: through every generate_face_emotions, generate_audio_stress and
\* simulate_scenario call, simulate_scenario("confused") included, the scenario is
\* one of normal, happy, stressed, and the tick counter time_factor grows by
\* exactly 1 in a generate_face_emotions call and stays as it is in the others.
C23_ScenarioAndTickCounter ==
    [][/\ fallback_generator.current_scenario \in {"normal", "happy", "stressed"}
       /\ fallback_generator'.current_scenario \in {"normal", "happy", "stressed"}
       /\ fallback_generator'.time_factor >= fallback_generator.time_factor
       /\ \A choice \in Scenarios :
              GenerateFaceEmotions(choice) =>
                  fallback_generator'.time_factor = fallback_generator.time_factor + 1
       /\ \A noise \in Noises :
              GenerateAudioStress(noise) =>
                  fallback_generator'.time_factor = fallback_generator.time_factor
       /\ \A scenario_type \in ScenarioTypes, emotion_trend \in Trends, stress_trend \in Trends :
              SimulateScenario(scenario_type, emotion_trend, stress_trend) =>
                  /\ fallback_generator'.time_factor = fallback_generator.time_factor
                  /\ fallback_generator'.current_scenario =
                         fallback_generator.current_scenario]_vars

\* simulate_scenario("confused") was called and the scenario, re-drawn at call 21,
\* is "stressed" after 22 calls.
C23_Witness ==
    /\ fallback_generator.emotion_trend = 0
    /\ fallback_generator.stress_trend = 30000
    /\ fallback_generator.time_factor = 22
    /\ fallback_generator.current_scenario = "stressed"


\* ---------------------------------------------------------------------------
\* The vector parts[label] / total has the 7 labels, strictly positive values and
\* the sum 1.
PositiveDistribution(vector) ==
    /\ DOMAIN vector.parts = {Labels[i] : i \in 1..Len(Labels)}
    /\ vector.total > 0
    /\ \A label \in DOMAIN vector.parts : vector.parts[label] > 0
    /\ TotalWeight(vector.parts) = vector.total

\* C24: the vector a generate_face_emotions call returns has all 7 labels with
\* strictly positive values that sum to 1, and is never the fixed neutral vector
\* of the total-is-zero branch.
C24_GeneratedVectorPositive ==
    fallback_generator.time_factor > 0 =>
        /\ PositiveDistribution(fallback_generator.last_face_emotions)
        /\ fallback_generator.last_face_emotions # FallbackNeutral
        /\ fallback_generator.last_face_emotions.total >= 7000

\* Call 22 ran in the happy scenario, where the weight of disgust was floored.
C24_Witness ==
    /\ fallback_generator.time_factor = 22
    /\ fallback_generator.last_face_emotions.parts.disgust = 1000
    /\ fallback_generator.last_face_emotions.parts.happy > 40000


(***************************************************************************)
(* Further claims about the automatic event detector of live_dashboard.    *)
(***************************************************************************)
\* C25: a live tick on which a trigger fires and the capture raises leaves the
\* detector as it was before the tick: the two counters and the last-fire times
\* are unchanged (and nothing is recorded).
C25_FailedCaptureIsNoOp ==
    [][\A d \in DominantLabels, f \in FusedMetrics :
         (~simulation_mode /\ LiveDashboard(d, f, "capture_error")) =>
             /\ CounterOrZero(stress_counter') = CounterOrZero(stress_counter)
             /\ CounterOrZero(distraction_counter') = CounterOrZero(distraction_counter)
             /\ last_screenshot_time' = last_screenshot_time
             /\ screenshots' = screenshots
    ]_vars


(***************************************************************************)
(* The session aggregator's claims.                                        *)
(***************************************************************************)
\* C26: for an empty series the quality score is 0 and the analytics returned
\* report the stability score and the most-stressed and most-engaged scores, each
\* present and zero.
C26_EmptySeriesZeroStats ==
    df = <<>> =>
        /\ quality_score # <<>> => quality_score[1].num = 0
        /\ analytics # <<>> =>
               /\ {"stability_score", "most_stressed", "most_engaged"} \subseteq DOMAIN analytics[1]
               /\ analytics[1].stability_score.num = 0
               /\ analytics[1].most_stressed.score = 0
               /\ analytics[1].most_engaged.score = 0


\* The blend ws * (100 - 100 * mean(stress)) + we * (100 * mean(engagement)) of a
\* non-empty frame, with the weights in tenths, as a fraction over 10 * Len(frame).
QualityBlend(frame, ws, we) ==
    ws * (100 * Len(frame) - ColumnSum(frame, "stress")) + we * ColumnSum(frame, "engagement")

\* C27: for a non-empty series with values in [0,1] the quality score is
\* 0.6 * (100 - 100 * mean(stress)) + 0.4 * (100 * mean(engagement)), lies in
\* [0,100], and is the blend under the configured quality weights.
C27_QualityScoreBlend ==
    (df # <<>> /\ quality_score # <<>>) =>
        /\ quality_score[1].den = 10 * Len(df)
        /\ quality_score[1].num = QualityBlend(df, 6, 4)
        /\ 0 <= quality_score[1].num /\ quality_score[1].num <= 100 * quality_score[1].den
        /\ quality_score[1].num = QualityBlend(df, ConfigStressWeight, ConfigEngagementWeight)

\* The part of C27 that the code has: the 0.6/0.4 blend, within [0,100].
C27_FixedWeightBlend ==
    (df # <<>> /\ quality_score # <<>>) =>
        /\ quality_score[1].den = 10 * Len(df)
        /\ quality_score[1].num = QualityBlend(df, 6, 4)
        /\ 0 <= quality_score[1].num /\ quality_score[1].num <= 100 * quality_score[1].den


\* The screenshot settings of config.py, scores in hundredths.
ConfigStressThreshold == 85         \* SCREENSHOT_STRESS_THRESHOLD = 0.85
ConfigStressDuration == 3           \* SCREENSHOT_STRESS_DURATION = 3
ConfigHappyConfidence == 75         \* SCREENSHOT_HAPPY_CONFIDENCE = 0.75
ConfigDistractionThreshold == 30    \* SCREENSHOT_DISTRACTION_THRESHOLD = 0.3
ConfigDistractionDuration == 5      \* SCREENSHOT_DISTRACTION_DURATION = 5
ConfigCooldown == 10                \* SCREENSHOT_COOLDOWN = 10

\* The counter a trigger with the given threshold test, duration and cooldown
\* leaves after a tick.
ConfiguredCounter(counter, qualifies, duration, key) ==
    IF qualifies
    THEN IF Count(counter) + 1 >= duration /\ now - LastFire(key) >= ConfigCooldown
         THEN 0 ELSE Count(counter) + 1
    ELSE 0

\* C28: on every live tick the detector counts and fires as a detector with the
\* configured values does: the STRESS counter follows the configured stress
\* threshold and duration, the HAPPY trigger the configured confidence, and the
\* DISTRACTION counter counts exactly the ticks with engagement <= the configured
\* distraction threshold.
C28_ThresholdsFromConfiguration ==
    [][\A d \in DominantLabels, f \in FusedMetrics :
         CountingTick(d, f) =>
             /\ stress_counter' =
                    ConfiguredCounter(stress_counter, f.stress >= ConfigStressThreshold,
                                      ConfigStressDuration, "STRESS")
             /\ (d = "happy" /\ f.confidence >= ConfigHappyConfidence
                   /\ now - LastFire("HAPPY") >= ConfigCooldown)
                    <=> (last_screenshot_time'["HAPPY"] = now
                           /\ last_screenshot_time["HAPPY"] # now)
             /\ distraction_counter' =
                    ConfiguredCounter(distraction_counter,
                                      f.engagement <= ConfigDistractionThreshold,
                                      ConfigDistractionDuration, "DISTRACTION")
    ]_vars


\* The part of C28 that the code has: the STRESS and HAPPY triggers, whose
\* literals equal the configured values.
C28_StressAndHappyAsConfigured ==
    [][\A d \in DominantLabels, f \in FusedMetrics :
         CountingTick(d, f) =>
             /\ stress_counter' =
                    ConfiguredCounter(stress_counter, f.stress >= ConfigStressThreshold,
                                      ConfigStressDuration, "STRESS")
             /\ (d = "happy" /\ f.confidence >= ConfigHappyConfidence
                   /\ now - LastFire("HAPPY") >= ConfigCooldown)
                    <=> (last_screenshot_time'["HAPPY"] = now
                           /\ last_screenshot_time["HAPPY"] # now)
    ]_vars


\* C29: an event recorded on a tick has the type of a trigger that fired on that
\* tick: its firing condition, cooldown included, held when the tick began and its
\* last-fire time is the tick's time.
C29_RecordedTypeFired ==
    [][\A d \in DominantLabels, f \in FusedMetrics :
         (DetectorTick(d, f) /\ Appended # <<>>) =>
             /\ Len(Appended) = 1
             /\ Appended[1].type \in EventKeys
             /\ last_screenshot_time'[Appended[1].type] = now
             /\ Appended[1].type = "STRESS" => StressFires(f)
             /\ Appended[1].type = "HAPPY" => HappyFires(d, f)
             /\ Appended[1].type = "DISTRACTION" => DistractionFires(f)
    ]_vars

\* C30: no event of type AUTO is recorded: every event of the log has one of the
\* types STRESS, HAPPY, DISTRACTION.
C30_NoAutoEvent ==
    \A i \in 1..Len(screenshots) :
        /\ screenshots[i].type # "AUTO"
        /\ screenshots[i].type \in {"STRESS", "HAPPY", "DISTRACTION"}

\* The log holds an event of each of the last two branches of the type selection.
C30_Witness ==
    /\ Len(screenshots) = 2
    /\ screenshots[1].type = "DISTRACTION"
    /\ screenshots[2].type = "HAPPY"


\* A clock value the model can still reach at which the STRESS cooldown has run out.
CooldownEndsInTime ==
    \E v \in now..MaxTime :
        (v - now) % TimeStep = 0 /\ v - LastFire("STRESS") >= 10

StressEventCount == Cardinality(EventsOfType(screenshots, "STRESS"))

\* C31: on every tick of a stretch of sustained stress (stress >= 0.85, capture
\* succeeding) a STRESS event is recorded exactly when the count has come to 3 or more
\* and at least 10 time-units have passed since the previous STRESS fire; a tick the
\* cooldown blocks leaves the count rising instead of resetting it. So, as long as the
\* clock can reach the end of the cooldown and the log has room, one more STRESS event
\* is recorded, again and again.
C31_SustainedStress ==
    /\ [][\A d \in DominantLabels, f \in FusedMetrics :
            (f.stress >= 85 /\ DetectorTick(d, f)) =>
               LET k == Count(stress_counter) IN
               IF k + 1 >= 3 /\ now - LastFire("STRESS") >= 10
               THEN /\ Len(Appended) = 1
                    /\ Appended[1] = [type |-> "STRESS", score |-> f.stress, timestamp |-> now]
                    /\ stress_counter' = 0
                    /\ last_screenshot_time'["STRESS"] = now
               ELSE /\ stress_counter' = k + 1
                    /\ EventsOfType(Appended, "STRESS") = {}
                    /\ last_screenshot_time'["STRESS"] = last_screenshot_time["STRESS"]
         ]_vars
    /\ \A n \in 0..(MaxLog - 1) :
          (StressEventCount = n /\ CooldownEndsInTime)
             ~> (StressEventCount > n \/ Len(screenshots) = MaxLog)

\* C31's case: the count went on to 5 while the cooldown of the first STRESS event
\* blocked the next one, and the second STRESS event came with the end of the cooldown.
C31_Witness ==
    /\ Len(screenshots) = 2
    /\ screenshots[1] = [type |-> "STRESS", score |-> 85, timestamp |-> 10]
    /\ screenshots[2] = [type |-> "STRESS", score |-> 85, timestamp |-> 20]
    /\ stress_counter = 0
    /\ now = 20

\* The count above the duration while the cooldown blocks the screenshot.
C31_WitnessBlocked ==
    /\ stress_counter > 3
    /\ last_screenshot_time["STRESS"] = 10
    /\ now = 15
    /\ StressEventCount = 1


\* C32 as claimed: a call with a valid raw vector returns a vector in which that raw
\* vector has a non-zero weight, whatever the history length: with another raw vector
\* in its place, the same call on the same history would return another vector.
C32_OutputDependsOnSample ==
    [][\A raw \in RawVectors :
          StableEmotions(raw) =>
             \A other \in RawVectors \ {raw} :
                GetStableEmotions(other, emotion_history, last_valid_emotions).ret
                    # stable_probs'
    ]_vars


\* 0.4*sad + 0.3*angry + 0.2*fear + 0.1*disgust of a vector in thousandths, in
\* ten-thousandths.
NegativeAffect(probs) == 4 * probs.sad + 3 * probs.angry + 2 * probs.fear + probs.disgust

\* C33 as claimed: the negative_score of every result of detect_emotions is
\* 0.4*sad + 0.3*angry + 0.2*fear + 0.1*disgust of the probs of the same result.
C33_NegativeScoreOfProbs ==
    result # None => result.negative_score = NegativeAffect(result.probs)

\* The paths on which the field is computed from the probs: a valid detection or the
\* last-valid fallback (a result whose probs are not the neutral prior).
C33_ComputedPaths ==
    (result # None /\ result.probs # GetNeutralEmotions) =>
        result.negative_score = NegativeAffect(result.probs)


\* C34 as claimed: the face vector and the audio stress of one simulation tick are
\* computed under the same scenario and the same tick counter value, the scenario the
\* tick started with and the counter it incremented, also on a tick that re-draws the
\* scenario.
C34_SameScenarioSameTick ==
    [][\A choice \in Scenarios, noise \in Noises :
          SimulationFrame(choice, noise) =>
             LET scenario == fallback_generator.current_scenario
                 t == fallback_generator.time_factor + 1
             IN  /\ fallback_generator'.last_face_emotions
                        = Normalize(ScenarioWeights(scenario, t))
                 /\ fallback_generator'.last_audio_stress
                        = Clamp(BaseStress(scenario, t) + noise)
    ]_vars

\* The tick counter is the same for both values, and so is the scenario on a tick that
\* does not re-draw it.
C34_SameTickCounter ==
    [][\A choice \in Scenarios, noise \in Noises :
          SimulationFrame(choice, noise) =>
             LET t == fallback_generator.time_factor + 1
             IN  /\ fallback_generator'.last_face_emotions
                        = Normalize(ScenarioWeights(fallback_generator.current_scenario, t))
                 /\ fallback_generator'.last_audio_stress
                        = Clamp(BaseStress(fallback_generator'.current_scenario, t) + noise)
                 /\ ~ScenarioDue(fallback_generator.scenario_timer + 1) =>
                        fallback_generator'.current_scenario
                            = fallback_generator.current_scenario
    ]_vars


\* Some backend of the chain would yield a candidate that passes the validity filter.
SomeBackendHasValidBox(frame, env) ==
    \E yield \in {FerYield(frame, env), CascadeYield(frame, env), DlibYield(frame, env)} :
        \E i \in 1..Len(yield) : ValidFace(yield[i])

\* C35 as claimed: whenever some backend of the chain can produce a valid box for the
\* frame, the localizer returns a box, also when an earlier backend yielded only
\* candidates the validity filter rejects.
C35_NullOnlyIfNoValidBox ==
    [][\A frame \in LocalizerFrames :
         \A env \in [fer : InitOutcomes(fer_detector),
                     cascade : InitOutcomes(opencv_cascade),
                     dlib : InitOutcomes(dlib_detector)] :
            (DetectFace(frame, env) /\ SomeBackendHasValidBox(frame, env)) =>
                face_box' # None
    ]_vars

\* What holds instead: the localizer returns a box exactly when the first backend that
\* yields candidates yields a valid one.
C35_FirstYieldDecides ==
    [][\A frame \in LocalizerFrames :
         \A env \in [fer : InitOutcomes(fer_detector),
                     cascade : InitOutcomes(opencv_cascade),
                     dlib : InitOutcomes(dlib_detector)] :
            DetectFace(frame, env) =>
                (face_box' # None <=>
                    \E i \in 1..Len(FirstYield(frame, env)) :
                        ValidFace(FirstYield(frame, env)[i]))
    ]_vars


\* The runs with no button pressed, with the start button pressed, with the stop
\* button pressed.
NoButton == [start_session |-> FALSE, stop_session |-> FALSE]
StartButton == [start_session |-> TRUE, stop_session |-> FALSE]
StopButton == [start_session |-> FALSE, stop_session |-> TRUE]

\* C36: the session records change only by one record appended on a run in which the
\* session is active before and after, or by the reset of a session start; a run with
\* start pressed while a session is active, or with stop pressed while none is, does
\* what the same run does with no button pressed: the logger is not restarted, the
\* camera is not stopped, session_active keeps its value.
C36_RecordsOnlyWhileActive ==
    [][/\ stress_history' # stress_history =>
            \/ /\ session_active /\ session_active'
               /\ Len(stress_history') = Len(stress_history) + 1
               /\ SubSeq(stress_history', 1, Len(stress_history)) = stress_history
            \/ /\ ~session_active /\ session_active'
               /\ stress_history' = <<>>
       /\ \A checkbox \in BOOLEAN, fused_metrics \in SessionMetrics,
             outcome \in Outcomes, camera_started \in BOOLEAN :
            /\ (/\ session_active
                /\ ScriptRun(StartButton, checkbox, "neutral", fused_metrics, outcome,
                             camera_started)) =>
                   /\ ScriptRun(NoButton, checkbox, "neutral", fused_metrics, outcome,
                                camera_started)
                   /\ session_active'
                   /\ Len(stress_history') = Len(stress_history) + 1
                   /\ camera_is_active => camera_is_active'
            /\ (/\ ~session_active
                /\ ScriptRun(StopButton, checkbox, "neutral", fused_metrics, outcome,
                             camera_started)) =>
                   /\ ScriptRun(NoButton, checkbox, "neutral", fused_metrics, outcome,
                                camera_started)
                   /\ UNCHANGED <<session_active, stress_history, screenshots,
                                  camera_is_active>>
    ]_vars

\* C36's case: a session logged three ticks and was stopped; the records stay as the
\* session left them.
C36_Witness ==
    /\ ~session_active
    /\ Len(stress_history) = 3
    /\ ~camera_is_active

C38_StressAlertLevelTriggered ==
    [][\A checkbox \in BOOLEAN, fused_metrics \in SessionMetrics,
          outcome \in Outcomes, camera_started \in BOOLEAN :
         (/\ session_active
          /\ ScriptRun(NoButton, checkbox, "neutral", fused_metrics, outcome,
                       camera_started)) =>
            /\ stress_alert' <=>
                  /\ Len(stress_history') >= 5
                  /\ \A i \in 1..Len(stress_history') :
                        i > Len(stress_history') - 5 => stress_history'[i] > 70
            /\ fused_metrics.stress <= 70 => ~stress_alert'
            /\ (stress_alert /\ fused_metrics.stress > 70) => stress_alert'
    ]_vars

\* C38's case: the alert shown on the fifth tick is shown again on the sixth.
C38_Witness ==
    /\ stress_alert
    /\ Len(stress_history) = 6
    /\ \A i \in 1..6 : stress_history[i] > 70

\* The alert gone with the first tick at 0.7 after five ticks above it.
C38_WitnessGone ==
    /\ ~stress_alert
    /\ session_active
    /\ stress_history = <<71, 71, 71, 71, 71, 70>>

====
